---- MODULE Spec2Model ----
(***************************************************************************)
(* DebtCrasher: the rotating JSON-lines event log (logging.ts) and the     *)
(* time-window aggregator of the report layer (report.ts).                 *)
(*                                                                         *)
(* SpecLog  - appendLogEvent / resolveLogFilePath / readLogEvents over a   *)
(*            logs directory whose files are sequences of characters       *)
(*            (tokens), with crash-truncated and garbled content.          *)
(* SpecAgg  - buildBaseBlocks folding timestamp-sorted events, one event   *)
(*            per step, followed by the finalization of the builders.      *)
(* SpecParse - parseReasoningJson applied to one AI response text.         *)
(* SpecGen  - generateReport / generateAiNote around their single          *)
(*            outbound call (postJson), with appends while it is in flight.*)
(* SpecSave - the change detector (primeDocumentContent,                   *)
(*            captureFileSaveEvent) under the open, save and note          *)
(*            callbacks of the extension, with note calls in flight.       *)
(* SpecStamp - the save, memo and note callbacks with the clock and the    *)
(*            repository in view: the timestamp and branch of each event.  *)
(***************************************************************************)
EXTENDS Integers, Sequences, FiniteSets, TLC

VARIABLES
  logFiles,     \* logs directory: file name (character codes) -> content (tokens)
  today,        \* day of the month of the wall clock (new Date())
  appended,     \* history: the events handed to appendLogEvent, in call order
  corruptions,  \* history: number of faults so far (crash, stray character, refused write)
  lastAppend,   \* history: day, directory found, path chosen and outcome of the last append
  readResult,   \* what readLogEvents returned, until a file changes again
  readFresh,    \* TRUE when readResult is the result of a call
  events,       \* buildBaseBlocks: the events consumed so far (sorted input prefix)
  builders,     \* buildBaseBlocks: the builders array
  lastFold,     \* history: what the last loop iteration did
  blocks,       \* buildBaseBlocks: the returned BaseBlock list
  aggPc,        \* buildBaseBlocks: "loop" | "done"
  sent,         \* history: the commentary and the body an AI response is made of
  reply,        \* parseReasoningJson: its argument (content)
  structural,   \* parseReasoningJson: what safeParseJson(content) did
  outcome,      \* parseReasoningJson: what the call returned or threw
  store,        \* the event store as readLogEvents returns it, in read order
  genOp,        \* generation: "report" (generateReport) | "note" (generateAiNote) | "none"
  genPc,        \* generation: "idle" | "awaiting" | "done"
  seen,         \* generateReport: the events it read from the store
  late,         \* history: the events appended since generateReport read the store
  passed,       \* generateReport: the sequence handed to buildBaseBlocks
  request,      \* generateReport: the BaseBlocks sent with the outbound call
  calls,        \* history: number of outbound calls issued by this invocation
  answer,       \* history: the HTTP response given to the outbound call
  reportFile,   \* reports/report.md
  reportBefore, \* history: reports/report.md when generateReport was invoked
  genResult,    \* what the invocation returned or threw
  settings,     \* settings: ai.autoGenerateOnSave; provider and key set
  lastSavedContent, \* the change detector's cache: path -> entry (content, or none)
  journal,      \* the events handed to appendLogEvent by the handlers, in call order
  flights,      \* the note generations whose outbound call is in flight
  shown,        \* the messages shown to the user, in order
  origin,       \* history: per path, where the baseline of its next capture comes from
  lastStep,     \* history: what the last callback did
  handled,      \* history: number of callbacks run so far
  repository    \* the repository of the workspace: how git rev-parse --abbrev-ref HEAD ends

logVars == <<logFiles, today, appended, corruptions, lastAppend, readResult, readFresh>>
aggVars == <<events, builders, lastFold, blocks, aggPc>>
parseVars == <<sent, reply, structural, outcome>>
genVars == <<store, genOp, genPc, seen, late, passed, request, calls, answer,
             reportFile, reportBefore, genResult>>
saveVars == <<settings, lastSavedContent, journal, flights, shown, origin, lastStep,
              handled, repository>>
vars == <<logFiles, today, appended, corruptions, lastAppend, readResult, readFresh,
          events, builders, lastFold, blocks, aggPc, sent, reply, structural, outcome,
          store, genOp, genPc, seen, late, passed, request, calls, answer,
          reportFile, reportBefore, genResult, settings, lastSavedContent,
          journal, flights, shown, origin, lastStep, handled, repository>>

\* ---------------------------------------------------------------- bounds
MaxAppends == 3
MaxDays == 2
MaxCorrupt == 1
MaxEvents == 3
MaxEntries == 2
MaxStore == 3
MaxLate == 1
MaxHandled == 3

\* the absent value of an optional field (undefined)
Undef == "undefined"

\* ================================================= response parser
\* ------------------------------------------------- response text
\* the text of an AI response, as a sequence of lexical pieces
Ch(c) == [k |-> "ch", s |-> c]
\* a JSON string literal, quotes included; the model's literals hold no
\* brace and no bracket
Str(s) == [k |-> "str", s |-> s]
\* a number, null, true or false
Lit(s) == [k |-> "lit", s |-> s]
\* a word of commentary: not a JSON token, no brace, no bracket
Prose(s) == [k |-> "prose", s |-> s]

OpenBrace == Ch("{")
CloseBrace == Ch("}")
OpenBracket == Ch("[")
CloseBracket == Ch("]")
Comma == Ch(",")
Colon == Ch(":")
Space == Ch(" ")

\* ------------------------------------------------- JavaScript values
\* a value as JSON.parse builds it; JUndefined is what reading a missing
\* property gives
JValue(ty, s, items, members) == [ty |-> ty, s |-> s, items |-> items, members |-> members]
JUndefined == JValue("undefined", "", <<>>, <<>>)
JNull == JValue("null", "", <<>>, <<>>)
JTrue == JValue("boolean", "true", <<>>, <<>>)
JFalse == JValue("boolean", "false", <<>>, <<>>)
JNum(s) == JValue("number", s, <<>>, <<>>)
JStr(s) == JValue("string", s, <<>>, <<>>)
JArr(items) == JValue("array", "", items, <<>>)
Member(key, val) == [key |-> key, val |-> val]
JObj(members) == JValue("object", "", <<>>, members)

\* Array.isArray(v)
IsArray(v) == v.ty = "array"
\* typeof v === "string"
IsString(v) == v.ty = "string"

\* v.key for a value that is neither null nor undefined: the last member of
\* that name of an object, undefined on an array or a primitive
Prop(v, key) ==
  LET hits == {i \in 1..Len(v.members) : v.members[i].key = key}
  IN IF v.ty # "object" \/ hits = {} THEN JUndefined
     ELSE v.members[CHOOSE i \in hits : \A j \in hits : j <= i].val

\* ------------------------------------------------- JSON.parse
NoParse == [ok |-> FALSE, val |-> JUndefined, next |-> 0]
Parsed(val, next) == [ok |-> TRUE, val |-> val, next |-> next]

LitValue(s) ==
  CASE s = "null" -> JNull
    [] s = "true" -> JTrue
    [] s = "false" -> JFalse
    [] OTHER -> JNum(s)

RECURSIVE ParseValue(_, _), ParseElements(_, _, _), ParseMembers(_, _, _)
\* the value that starts at piece i of t
ParseValue(t, i) ==
  IF i > Len(t) THEN NoParse
  ELSE IF t[i].k = "str" THEN Parsed(JStr(t[i].s), i + 1)
  ELSE IF t[i].k = "lit" THEN Parsed(LitValue(t[i].s), i + 1)
  ELSE IF t[i] = OpenBracket THEN
    IF i < Len(t) /\ t[i + 1] = CloseBracket THEN Parsed(JArr(<<>>), i + 2)
    ELSE ParseElements(t, i + 1, <<>>)
  ELSE IF t[i] = OpenBrace THEN
    IF i < Len(t) /\ t[i + 1] = CloseBrace THEN Parsed(JObj(<<>>), i + 2)
    ELSE ParseMembers(t, i + 1, <<>>)
  ELSE NoParse

\* the rest of an array whose next element starts at piece i
ParseElements(t, i, acc) ==
  LET v == ParseValue(t, i)
  IN IF ~v.ok \/ v.next > Len(t) THEN NoParse
     ELSE IF t[v.next] = Comma THEN ParseElements(t, v.next + 1, Append(acc, v.val))
     ELSE IF t[v.next] = CloseBracket THEN Parsed(JArr(Append(acc, v.val)), v.next + 1)
     ELSE NoParse

\* the rest of an object whose next member starts at piece i
ParseMembers(t, i, acc) ==
  IF i + 1 > Len(t) \/ t[i].k # "str" \/ t[i + 1] # Colon THEN NoParse
  ELSE LET v == ParseValue(t, i + 2)
       IN IF ~v.ok \/ v.next > Len(t) THEN NoParse
          ELSE IF t[v.next] = Comma
            THEN ParseMembers(t, v.next + 1, Append(acc, Member(t[i].s, v.val)))
          ELSE IF t[v.next] = CloseBrace
            THEN Parsed(JObj(Append(acc, Member(t[i].s, v.val))), v.next + 1)
          ELSE NoParse

\* JSON.parse(text): white space between the pieces is insignificant, the
\* text must be one value and nothing else; ok = FALSE is a SyntaxError
JSON_parse(text) ==
  LET t == SelectSeq(text, LAMBDA x : x # Space)
      v == ParseValue(t, 1)
  IN IF v.ok /\ v.next = Len(t) + 1 THEN [ok |-> TRUE, val |-> v.val]
     ELSE [ok |-> FALSE, val |-> JUndefined]

\* ------------------------------------------------- JSON.stringify
RECURSIVE Stringify(_), StringifyItems(_), StringifyMembers(_)
\* the text an AI writes for a value
Stringify(v) ==
  CASE v.ty = "string" -> <<Str(v.s)>>
    [] v.ty = "array" -> <<OpenBracket>> \o StringifyItems(v.items) \o <<CloseBracket>>
    [] v.ty = "object" -> <<OpenBrace>> \o StringifyMembers(v.members) \o <<CloseBrace>>
    [] v.ty = "null" -> <<Lit("null")>>
    [] OTHER -> <<Lit(v.s)>>

StringifyItems(items) ==
  IF items = <<>> THEN <<>>
  ELSE IF Len(items) = 1 THEN Stringify(items[1])
  ELSE Stringify(items[1]) \o <<Comma, Space>> \o StringifyItems(Tail(items))

StringifyMembers(members) ==
  IF members = <<>> THEN <<>>
  ELSE LET m == <<Str(members[1].key), Colon, Space>> \o Stringify(members[1].val)
       IN IF Len(members) = 1 THEN m
          ELSE m \o <<Comma, Space>> \o StringifyMembers(Tail(members))

\* ------------------------------------------------- safeParseJson
IsSpaceOnly(text) == \A i \in 1..Len(text) : text[i] = Space

\* content.trim()
Trim(text) ==
  LET inked == {i \in 1..Len(text) : text[i] # Space}
  IN IF inked = {} THEN <<>>
     ELSE SubSeq(text, CHOOSE i \in inked : \A j \in inked : i <= j,
                       CHOOSE i \in inked : \A j \in inked : j <= i)

\* text.indexOf(c) and text.lastIndexOf(c), counted from 1; 0 is JavaScript's -1
IndexOf(text, c) ==
  LET hits == {i \in 1..Len(text) : text[i] = c}
  IN IF hits = {} THEN 0 ELSE CHOOSE i \in hits : \A j \in hits : i <= j

LastIndexOf(text, c) ==
  LET hits == {i \in 1..Len(text) : text[i] = c}
  IN IF hits = {} THEN 0 ELSE CHOOSE i \in hits : \A j \in hits : j <= i

\* text.slice(start, end + 1), both found
Slice(text, start, end) == IF end < start THEN <<>> ELSE SubSeq(text, start, end)

\* what safeParseJson did: the value it returned or the error it threw, and
\* the attempt (1 whole text, 2 braces, 3 brackets) that ended the call
Returned(val, attempt) == [threw |-> "", val |-> val, attempt |-> attempt]
Thrown(error, attempt) == [threw |-> error, val |-> JUndefined, attempt |-> attempt]

\* the value of JSON.parse(jsonText) as a statement outside any try block
ParseOrThrow(jsonText, attempt) ==
  LET r == JSON_parse(jsonText)
  IN IF r.ok THEN Returned(r.val, attempt) ELSE Thrown("SyntaxError", attempt)

\* mutant: the bracket substring is tried before the brace substring
SafeParseJson_BracketsFirst(content) ==
  LET trimmed == Trim(content)
      objectStart == IndexOf(trimmed, OpenBrace)
      objectEnd == LastIndexOf(trimmed, CloseBrace)
      arrayStart == IndexOf(trimmed, OpenBracket)
      arrayEnd == LastIndexOf(trimmed, CloseBracket)
  IN IF JSON_parse(content).ok THEN Returned(JSON_parse(content).val, 1)
     ELSE IF arrayStart # 0 /\ arrayEnd # 0
       THEN ParseOrThrow(Slice(trimmed, arrayStart, arrayEnd), 3)
     ELSE IF objectStart # 0 /\ objectEnd # 0
       THEN ParseOrThrow(Slice(trimmed, objectStart, objectEnd), 2)
     ELSE Thrown("AI response did not include JSON.", 0)

SafeParseJson(content) ==
  LET trimmed == Trim(content)
      objectStart == IndexOf(trimmed, OpenBrace)
      objectEnd == LastIndexOf(trimmed, CloseBrace)
      arrayStart == IndexOf(trimmed, OpenBracket)
      arrayEnd == LastIndexOf(trimmed, CloseBracket)
  IN IF JSON_parse(content).ok THEN Returned(JSON_parse(content).val, 1)
     ELSE IF objectStart # 0 /\ objectEnd # 0
       THEN ParseOrThrow(Slice(trimmed, objectStart, objectEnd), 2)
     ELSE IF arrayStart # 0 /\ arrayEnd # 0
       THEN ParseOrThrow(Slice(trimmed, arrayStart, arrayEnd), 3)
     ELSE Thrown("AI response did not include JSON.", 0)

\* ------------------------------------------------- parseReasoningJson
\* the argument of parseReasoningJson: a string, or undefined when the
\* provider's reply carried no text
StringContent(text) == [type |-> "string", text |-> text]
NoContent == [type |-> "undefined", text |-> <<>>]

\* reading a property of v throws TypeError
Unreadable(v) == v.ty \in {"null", "undefined"}

\* v?.key
OptProp(v, key) == IF Unreadable(v) THEN JUndefined ELSE Prop(v, key)

\* Array.isArray(v) ? v : []
ListOrEmpty(v) == IF IsArray(v) THEN v ELSE JArr(<<>>)

ListFields == {"behavior", "concepts", "alternatives", "whyChosen", "tradeoffs", "rememberThis"}

\* mutant: the list-valued fields are copied as they are
MapBlock_NoCoerce(block) ==
  [time |-> Prop(block, "time"),
   file |-> Prop(block, "file"),
   oneLineSummary |-> Prop(block, "oneLineSummary"),
   problem |-> Prop(block, "problem"),
   behavior |-> Prop(block, "behavior"),
   concepts |-> Prop(block, "concepts"),
   alternatives |-> Prop(block, "alternatives"),
   whyChosen |-> Prop(block, "whyChosen"),
   tradeoffs |-> Prop(block, "tradeoffs"),
   rememberThis |-> Prop(block, "rememberThis")]

\* the object built by .map(block => ...), for a block that can be read
MapBlock(block) ==
  [time |-> Prop(block, "time"),
   file |-> Prop(block, "file"),
   oneLineSummary |-> Prop(block, "oneLineSummary"),
   problem |-> Prop(block, "problem"),
   behavior |-> ListOrEmpty(Prop(block, "behavior")),
   concepts |-> ListOrEmpty(Prop(block, "concepts")),
   alternatives |-> ListOrEmpty(Prop(block, "alternatives")),
   whyChosen |-> ListOrEmpty(Prop(block, "whyChosen")),
   tradeoffs |-> ListOrEmpty(Prop(block, "tradeoffs")),
   rememberThis |-> ListOrEmpty(Prop(block, "rememberThis"))]

\* the predicate of .filter(...)
IsValidBlock(block) ==
  IsString(block.time) /\ IsString(block.oneLineSummary) /\ IsString(block.problem)

\* what parseReasoningJson did: the ReasoningJson it returned or the error
\* it threw
Result(validBlocks) == [kind |-> "returned", error |-> "", blocks |-> validBlocks]
Failure(error) == [kind |-> "threw", error |-> error, blocks |-> <<>>]

\* blocks.map(...).filter(...) and the rest of parseReasoningJson; reading
\* block.time of a null entry throws inside map
ValidateBlocks(entries) ==
  IF \E i \in 1..Len(entries) : Unreadable(entries[i]) THEN Failure("TypeError")
  ELSE LET validBlocks == SelectSeq([i \in 1..Len(entries) |-> MapBlock(entries[i])],
                                    IsValidBlock)
       IN IF validBlocks = <<>>
            THEN Failure("No valid reasoning blocks found in AI response.")
            ELSE Result(validBlocks)

\* mutant: the blocks field is read without optional chaining
ParseReasoningJson_NoChain(content) ==
  IF content.type # "string" THEN Failure("AI response was empty.")
  ELSE LET parsed == SafeParseJson(content.text)
           candidates == IF IsArray(parsed.val) THEN parsed.val ELSE Prop(parsed.val, "blocks")
       IN IF parsed.threw # "" THEN Failure(parsed.threw)
          ELSE IF ~IsArray(parsed.val) /\ Unreadable(parsed.val) THEN Failure("TypeError")
          ELSE IF ~IsArray(candidates) THEN Failure("Reasoning JSON schema mismatch.")
          ELSE ValidateBlocks(candidates.items)

ParseReasoningJson(content) ==
  IF content.type # "string" THEN Failure("AI response was empty.")
  ELSE LET parsed == SafeParseJson(content.text)
           candidates == IF IsArray(parsed.val) THEN parsed.val ELSE OptProp(parsed.val, "blocks")
       IN IF parsed.threw # "" THEN Failure(parsed.threw)
          ELSE IF ~IsArray(candidates) THEN Failure("Reasoning JSON schema mismatch.")
          ELSE ValidateBlocks(candidates.items)

\* ------------------------------------------------- parser at rest
NoSent == [lead |-> <<>>, body |-> <<>>, trail |-> <<>>]
NoParsed == [threw |-> "", val |-> JUndefined, attempt |-> 0]
NoOutcome == [kind |-> "none", error |-> "", blocks |-> <<>>]

ParseIdle ==
  /\ sent = NoSent
  /\ reply = NoContent
  /\ structural = NoParsed
  /\ outcome = NoOutcome


\* ------------------------------------------------- generation at rest
\* an Error object: its message, and for a failed request the status and
\* the raw body the message carries
ErrorOf(message, status, raw) == [message |-> message, status |-> status, raw |-> raw]
\* the body of an HTTP response: text that is JSON or not; when it is, the
\* value of choices[0].message.content in it (undefined when missing)
RawBody(json, text) == [json |-> json, content |-> text]
NoRaw == RawBody(FALSE, NoContent)
NoError == ErrorOf("", 0, NoRaw)
\* an HTTP exchange: the socket failed, or a status and a body arrived
HttpResponse(failed, status, raw) == [failed |-> failed, status |-> status, raw |-> raw]
NoResponse == HttpResponse(FALSE, 0, NoRaw)
\* what an async function of aiClient.ts did: the blocks or the note payload
\* it resolved with, or the error it rejected with
Settled(kind, error, reasoning, payload) ==
  [kind |-> kind, error |-> error, blocks |-> reasoning, payload |-> payload]
NotSettled == Settled("pending", NoError, <<>>, JUndefined)
\* reports/report.md: absent, or the markdown written by generateReport
ReportFile(exists, timeline, reasoning) ==
  [exists |-> exists, timeline |-> timeline, blocks |-> reasoning]
NoReportFile == ReportFile(FALSE, "", <<>>)

GenIdle ==
  /\ store = <<>>
  /\ genOp = "none"
  /\ genPc = "idle"
  /\ seen = <<>>
  /\ late = <<>>
  /\ passed = <<>>
  /\ request = <<>>
  /\ calls = 0
  /\ answer = NoResponse
  /\ reportFile = NoReportFile
  /\ reportBefore = NoReportFile
  /\ genResult = NotSettled

\* ------------------------------------------------- change detector at rest
\* an entry of the lastSavedContent map; has = FALSE when the map has no
\* entry for the path (lastSavedContent.get gives undefined)
CacheEntry(has, text) == [has |-> has, text |-> text]
NoEntry == CacheEntry(FALSE, <<>>)

\* the paths of the documents the editor opens and saves: two files of the
\* workspace, a file under .devcrasher, an untitled document
TrackedPaths == {"a", "b"}
DocumentPaths == TrackedPaths \cup {".devcrasher/logs/x.log", "Untitled-1"}

\* workspace settings: ai.autoGenerateOnSave, provider and API key configured
Settings(autoGen, configured) == [autoGen |-> autoGen, configured |-> configured]

\* the end of execSync("git rev-parse --abbrev-ref HEAD"): it threw (no git,
\* no repository), or it returned the output
Git(threw, output) == [threw |-> threw, output |-> output]

\* where the baseline of the next capture of a path comes from
Origin(kind, text) == [kind |-> kind, text |-> text]
NoOrigin == Origin("none", <<>>)

\* what a callback did: the handler, the document and its text, the baseline
\* and the counts of a capture, the cache, the log and the messages before
\* the callback, and for the continuation of a note call how it settled
Step(op, path, text, previous, added, removed, cacheBefore, journalBefore, shownBefore, via, settled) ==
  [op |-> op, path |-> path, text |-> text, previous |-> previous, added |-> added,
   removed |-> removed, cacheBefore |-> cacheBefore, journalBefore |-> journalBefore,
   shownBefore |-> shownBefore, via |-> via, settled |-> settled]
NoCache == [p \in TrackedPaths |-> NoEntry]
NoStep == Step("none", "", <<>>, <<>>, 0, 0, NoCache, <<>>, <<>>, "", NotSettled)

SaveIdle ==
  /\ settings = Settings(FALSE, FALSE)
  /\ lastSavedContent = NoCache
  /\ journal = <<>>
  /\ flights = <<>>
  /\ shown = <<>>
  /\ origin = [p \in TrackedPaths |-> NoOrigin]
  /\ lastStep = NoStep
  /\ handled = 0
  /\ repository = Git(FALSE, "main")

\* ------------------------------------------------------------ characters
\* ".log" and "-" as UTF-16 code units; digits are 48 + d
DotLog == <<46, 108, 111, 103>>
Dash == <<45>>

RECURSIVE DecStr(_)
\* template literal `${nextIndex}`: decimal digits of a non-negative integer
DecStr(n) == IF n < 10 THEN <<48 + n>> ELSE DecStr(n \div 10) \o <<48 + (n % 10)>>

\* new Date().toISOString().slice(0, 10) on day d of March 2026
DateStamp(d) == <<50, 48, 50, 54, 45, 48, 51, 45, 48 + (d \div 10), 48 + (d % 10)>>

BaseName(ds) == ds \o DotLog
ShardName(ds, n) == ds \o Dash \o DecStr(n) \o DotLog

StartsWith(s, p) == Len(s) >= Len(p) /\ SubSeq(s, 1, Len(p)) = p
EndsWith(s, p) == Len(s) >= Len(p) /\ SubSeq(s, Len(s) - Len(p) + 1, Len(s)) = p

\* ---------------------------------------------------------------- tokens
\* File content is a sequence of tokens: single characters, or the body of
\* one serialized event (everything between its braces).
Tok(c) == [c |-> c, id |-> 0, bytes |-> 1]
LB == Tok("{")
RB == Tok("}")
NL == Tok("\n")
CR == Tok("\r")
WS == Tok(" ")
ZZ == Tok("0")

MAX_LOG_SIZE_BYTES == 5 * 1024 * 1024

\* byte lengths of the entries the model appends: a short event, and an event
\* whose note is so long that its entry alone fills a shard to the threshold
EntrySizes == {200, MAX_LOG_SIZE_BYTES}

\* `${JSON.stringify(event)}\n`
Entry(e) == <<LB, [c |-> "body", id |-> e.id, bytes |-> e.bytes - 3], RB, NL>>

RECURSIVE ByteLength(_)
ByteLength(content) ==
  IF content = <<>> THEN 0 ELSE Head(content).bytes + ByteLength(Tail(content))

\* fs.statSync(path).size
StatSize(files, name) == ByteLength(files[name])

\* ------------------------------------------------- resolveLogFilePath
\* mutant: the threshold test written with <= instead of <
ResolveLogFilePath_SizeLeq(files, dateStamp) ==
  LET basePath == BaseName(dateStamp)
      existing == {f \in DOMAIN files :
                     StartsWith(f, dateStamp \o Dash) /\ EndsWith(f, DotLog)}
  IN IF basePath \notin DOMAIN files THEN basePath
     ELSE IF StatSize(files, basePath) <= MAX_LOG_SIZE_BYTES THEN basePath
     ELSE ShardName(dateStamp, Cardinality(existing) + 2)

ResolveLogFilePath(files, dateStamp) ==
  LET basePath == BaseName(dateStamp)
      existing == {f \in DOMAIN files :
                     StartsWith(f, dateStamp \o Dash) /\ EndsWith(f, DotLog)}
  IN IF basePath \notin DOMAIN files THEN basePath
     ELSE IF StatSize(files, basePath) < MAX_LOG_SIZE_BYTES THEN basePath
     ELSE ShardName(dateStamp, Cardinality(existing) + 2)

\* mutant: the file is written anew, as by fs.writeFileSync
AppendFile_Overwrites(files, name, data) ==
  [f \in DOMAIN files \cup {name} |-> IF f = name THEN data ELSE files[f]]

\* fs.appendFileSync(path, data): creates the file when it does not exist
AppendFile(files, name, data) ==
  IF name \in DOMAIN files
    THEN [files EXCEPT ![name] = @ \o data]
    ELSE [f \in DOMAIN files \cup {name} |-> IF f = name THEN data ELSE files[f]]

\* what a run of appendLogEvent did: the directory it leaves, the number of
\* calls of fs.appendFileSync it made, whether it threw
Ran(files, writes, threw) == [files |-> files, writes |-> writes, threw |-> threw]

\* mutant: the write is wrapped in try/catch and its error dropped
WriteEntry_Swallows(files, name, data, refused) ==
  IF refused THEN Ran(files, 1, FALSE) ELSE Ran(AppendFile(files, name, data), 1, FALSE)

\* the last statement of appendLogEvent: one fs.appendFileSync outside any
\* try; when the filesystem refuses the write its error leaves the function
WriteEntry(files, name, data, refused) ==
  IF refused THEN Ran(files, 1, TRUE) ELSE Ran(AppendFile(files, name, data), 1, FALSE)

\* ------------------------------------------------------ readLogEvents
\* string comparison of Array.prototype.sort(): by UTF-16 code units at the
\* first place where the strings differ, a proper prefix sorting first
LexLess(a, b) ==
  LET n == IF Len(a) < Len(b) THEN Len(a) ELSE Len(b)
      diff == {i \in 1..n : a[i] # b[i]}
  IN IF diff = {} THEN Len(a) < Len(b)
     ELSE LET k == CHOOSE i \in diff : \A j \in diff : i <= j IN a[k] < b[k]

RECURSIVE SortNames(_)
\* .sort() of a set of distinct names, ascending
SortNames(S) ==
  IF S = {} THEN <<>>
  ELSE LET m == CHOOSE x \in S : \A y \in S \ {x} : LexLess(x, y)
       IN <<m>> \o SortNames(S \ {m})

StripCR(line) ==
  IF line # <<>> /\ line[Len(line)] = CR THEN SubSeq(line, 1, Len(line) - 1) ELSE line

RECURSIVE SplitFrom(_, _, _)
SplitFrom(content, cur, acc) ==
  IF content = <<>> THEN Append(acc, cur)
  ELSE IF Head(content) = NL THEN SplitFrom(Tail(content), <<>>, Append(acc, StripCR(cur)))
  ELSE SplitFrom(Tail(content), Append(cur, Head(content)), acc)

\* content.split(/\r?\n/)
SplitLines(content) == SplitFrom(content, <<>>, <<>>)

IsSpace(t) == t = WS \/ t = CR

\* !line.trim()
IsBlank(line) == \A i \in 1..Len(line) : IsSpace(line[i])

\* JSON.parse(line): whitespace around the structural tokens is insignificant;
\* "{" body "}" is an event object, "{" "}" the empty object, "0" a number;
\* every other text throws SyntaxError (ok = FALSE)
JsonParse(line) ==
  LET t == SelectSeq(line, LAMBDA x : ~IsSpace(x))
  IN IF Len(t) = 3 /\ t[1] = LB /\ t[2].c = "body" /\ t[3] = RB
       THEN [ok |-> TRUE, value |-> [kind |-> "event", id |-> t[2].id]]
     ELSE IF t = <<LB, RB>>
       THEN [ok |-> TRUE, value |-> [kind |-> "object", id |-> 0]]
     ELSE IF t = <<ZZ>>
       THEN [ok |-> TRUE, value |-> [kind |-> "number", id |-> 0]]
     ELSE [ok |-> FALSE, value |-> [kind |-> "none", id |-> 0]]

\* mutant: no try/catch around JSON.parse, the SyntaxError escapes
ReadLine_NoCatch(acc, line) ==
  IF acc.raised THEN acc
  ELSE IF IsBlank(line) THEN acc
  ELSE IF JsonParse(line).ok
    THEN [acc EXCEPT !.events = Append(@, JsonParse(line).value)]
    ELSE [acc EXCEPT !.raised = TRUE]

\* mutant: a parsed value is kept only when it has the shape of an event
ReadLine_EventsOnly(acc, line) ==
  IF acc.raised THEN acc
  ELSE IF IsBlank(line) THEN acc
  ELSE IF JsonParse(line).ok /\ JsonParse(line).value.kind = "event"
    THEN [acc EXCEPT !.events = Append(@, JsonParse(line).value)]
    ELSE acc

\* body of the inner loop of readLogEvents
ReadLine(acc, line) ==
  IF acc.raised THEN acc
  ELSE IF IsBlank(line) THEN acc
  ELSE IF JsonParse(line).ok
    THEN [acc EXCEPT !.events = Append(@, JsonParse(line).value)]
    ELSE acc

RECURSIVE ReadLines(_, _)
ReadLines(acc, lines) ==
  IF lines = <<>> THEN acc ELSE ReadLines(ReadLine(acc, Head(lines)), Tail(lines))

RECURSIVE ReadFiles(_, _, _)
ReadFiles(acc, files, names) ==
  IF names = <<>> THEN acc
  ELSE ReadFiles(ReadLines(acc, SplitLines(files[Head(names)])), files, Tail(names))

\* fs.readdirSync(logsDir).filter(file => file.endsWith(".log")).sort()
ListLogFiles(files) == SortNames({f \in DOMAIN files : EndsWith(f, DotLog)})

ReadLogEvents(files) ==
  ReadFiles([raised |-> FALSE, events |-> <<>>], files, ListLogFiles(files))

\* -------------------------------------------------------- log actions
NoRead == [raised |-> FALSE, events |-> <<>>]
NoName == <<>>
NoDir == [f \in {} |-> <<>>]
NoAppend ==
  [day |-> 0, dir |-> NoDir, target |-> NoName, refused |-> FALSE, writes |-> 0, threw |-> FALSE]

AggIdle ==
  /\ events = <<>>
  /\ builders = <<>>
  /\ lastFold = [kind |-> "none"]
  /\ blocks = <<>>
  /\ aggPc = "idle"

\* an empty logs directory, nothing read yet
InitLog ==
  /\ logFiles = NoDir
  /\ today = 1
  /\ appended = <<>>
  /\ corruptions = 0
  /\ lastAppend = NoAppend
  /\ readResult = NoRead
  /\ readFresh = FALSE
  /\ AggIdle
  /\ ParseIdle
  /\ GenIdle
  /\ SaveIdle

\* appendLogEvent(workspaceRoot, event) with an event whose entry is `bytes`
\* long; the filesystem takes the write or refuses it (disk full, no
\* permission), and an event whose write was refused is not in the log
AppendLogEvent(bytes, refused) ==
  /\ Len(appended) < MaxAppends
  /\ refused => corruptions < MaxCorrupt
  /\ LET event == [id |-> Len(appended) + 1, bytes |-> bytes]
         logFilePath == ResolveLogFilePath(logFiles, DateStamp(today))
         ran == WriteEntry(logFiles, logFilePath, Entry(event), refused)
     IN /\ logFiles' = ran.files
        /\ appended' = IF refused THEN appended ELSE Append(appended, event)
        /\ lastAppend' = [day |-> today, dir |-> logFiles, target |-> logFilePath,
                          refused |-> refused, writes |-> ran.writes, threw |-> ran.threw]
  /\ corruptions' = IF refused THEN corruptions + 1 ELSE corruptions
  /\ readResult' = NoRead
  /\ readFresh' = FALSE
  /\ UNCHANGED today
  /\ UNCHANGED <<aggVars, parseVars, genVars, saveVars>>

\* the wall clock passes midnight (UTC); a day on which nothing was written
\* leaves no trace in the directory and is not modelled
NextDay ==
  /\ today < MaxDays
  /\ BaseName(DateStamp(today)) \in DOMAIN logFiles
  /\ today' = today + 1
  /\ UNCHANGED <<logFiles, appended, corruptions, lastAppend, readResult, readFresh>>
  /\ UNCHANGED <<aggVars, parseVars, genVars, saveVars>>

\* the process dies inside appendFileSync: only the first k characters of
\* the entry of a short event reach the active shard, without the newline
CrashAppend(k) ==
  /\ corruptions < MaxCorrupt
  /\ LET event == [id |-> 0, bytes |-> 200]
         logFilePath == ResolveLogFilePath(logFiles, DateStamp(today))
     IN logFiles' = AppendFile(logFiles, logFilePath, SubSeq(Entry(event), 1, k))
  /\ corruptions' = corruptions + 1
  /\ readResult' = NoRead
  /\ readFresh' = FALSE
  /\ UNCHANGED <<today, appended, lastAppend>>
  /\ UNCHANGED <<aggVars, parseVars, genVars, saveVars>>

\* the shard written last is damaged (torn or stray write): one more
\* character ends up at its tail
Garble(tok) ==
  /\ corruptions < MaxCorrupt
  /\ lastAppend.target \in DOMAIN logFiles
  /\ logFiles' = [logFiles EXCEPT ![lastAppend.target] = Append(@, tok)]
  /\ corruptions' = corruptions + 1
  /\ readResult' = NoRead
  /\ readFresh' = FALSE
  /\ UNCHANGED <<today, appended, lastAppend>>
  /\ UNCHANGED <<aggVars, parseVars, genVars, saveVars>>

\* readLogEvents(workspaceRoot)
ReadLog ==
  /\ ~readFresh
  /\ readResult' = ReadLogEvents(logFiles)
  /\ readFresh' = TRUE
  /\ UNCHANGED <<logFiles, today, appended, corruptions, lastAppend>>
  /\ UNCHANGED <<aggVars, parseVars, genVars, saveVars>>

GarbleTokens == {RB, NL, CR, ZZ}

NextLog ==
  \/ \E bytes \in EntrySizes : AppendLogEvent(bytes, FALSE)
  \/ AppendLogEvent(200, TRUE)
  \/ NextDay
  \/ \E k \in 1..2 : CrashAppend(k)
  \/ \E tok \in GarbleTokens : Garble(tok)
  \/ ReadLog

SpecLog == InitLog /\ [][NextLog]_vars

\* ------------------------------------------------------ log properties
RECURSIVE Ascending(_)
\* the elements of a finite set of integers in ascending order
Ascending(S) ==
  IF S = {} THEN <<>>
  ELSE LET least == CHOOSE p \in S : \A q \in S : p <= q
       IN <<least>> \o Ascending(S \ {least})

\* the line of `content` between position s (0, or the place of a newline)
\* and position e (the place of the next newline, or the end), without its
\* white space
LineFrom(content, s, e) ==
  SelectSeq(SubSeq(content, s + 1, e - 1), LAMBDA x : x # WS /\ x # CR)

\* the lines of a file, top to bottom
TextLines(content) ==
  LET starts == Ascending({0} \cup {q \in 1..Len(content) : content[q] = NL})
  IN [i \in 1..Len(starts) |->
        LineFrom(content, starts[i],
                 IF i < Len(starts) THEN starts[i + 1] ELSE Len(content) + 1)]

\* a well-formed event line: one serialized event and nothing else
IsEventLine(l) == Len(l) = 3 /\ l[1] = LB /\ l[2].c = "body" /\ l[3] = RB
\* a line that is valid JSON without being a serialized event: {} or 0
IsForeignJson(l) == l \in {<<LB, RB>>, <<ZZ>>}
\* a line that is neither blank nor parseable
IsMalformed(l) == l # <<>> /\ ~IsEventLine(l) /\ ~IsForeignJson(l)

HasLine(content, P(_)) ==
  LET ls == TextLines(content) IN \E i \in 1..Len(ls) : P(ls[i])

EventsIn(content) ==
  LET ls == SelectSeq(TextLines(content), IsEventLine)
  IN [i \in 1..Len(ls) |-> [kind |-> "event", id |-> ls[i][2].id]]

RECURSIVE EventsOfFiles(_, _)
\* the events of the well-formed lines of the named files, file after file
EventsOfFiles(files, names) ==
  IF names = <<>> THEN <<>>
  ELSE EventsIn(files[Head(names)]) \o EventsOfFiles(files, Tail(names))

AsRead(evs) == [i \in 1..Len(evs) |-> [kind |-> "event", id |-> evs[i].id]]

\* C1: with no corrupted line, readLogEvents returns exactly the appended
\* events, each once, in the order in which they were appended, whatever the
\* entry sizes and the shard rotations in between.
C1_ReadReturnsAppendOrder ==
  (readFresh /\ corruptions = 0) =>
     (~readResult.raised /\ readResult.events = AsRead(appended))

\* C2: readLogEvents never raises because of shard content; when every line
\* is a well-formed event line, a blank line or a line that fails to parse,
\* it returns exactly the events of the well-formed lines, in file order.
C2_SkipsMalformedLines ==
  readFresh =>
     /\ ~readResult.raised
     /\ (\A f \in DOMAIN logFiles : ~HasLine(logFiles[f], IsForeignJson))
          => readResult.events = EventsOfFiles(logFiles, ListLogFiles(logFiles))

\* a read of a directory holding a malformed line next to well-formed ones
C2_Witness ==
  /\ readFresh
  /\ \A f \in DOMAIN logFiles : ~HasLine(logFiles[f], IsForeignJson)
  /\ \E f \in DOMAIN logFiles :
       HasLine(logFiles[f], IsMalformed) /\ HasLine(logFiles[f], IsEventLine)
  /\ Len(readResult.events) >= 1

\* the indices an overflow shard can carry within the bounds
ShardIndices == 1..(MaxAppends + MaxCorrupt + 2)

\* number of overflow shards <date>-<n>.log present in a directory
OverflowCount(dir, ds) == Cardinality({n \in ShardIndices : ShardName(ds, n) \in DOMAIN dir})

\* C3: an append targets the base shard <date>.log iff that file does not
\* exist or is strictly below 5,242,880 bytes; otherwise it targets
\* <date>-<k+2>.log, k the number of existing <date>-*.log files; the first
\* overflow shard is <date>-2.log and no <date>-1.log is ever created.
C3_ShardSelection ==
  /\ lastAppend.day # 0 =>
       LET ds == DateStamp(lastAppend.day)
           dir == lastAppend.dir
           base == BaseName(ds)
           small == base \notin DOMAIN dir \/ StatSize(dir, base) < 5242880
       IN /\ (lastAppend.target = base) <=> small
          /\ ~small => lastAppend.target = ShardName(ds, OverflowCount(dir, ds) + 2)
          /\ (~small /\ OverflowCount(dir, ds) = 0) => lastAppend.target = ShardName(ds, 2)
  /\ \A d \in 1..MaxDays :
       /\ ShardName(DateStamp(d), 1) \notin DOMAIN logFiles
       /\ OverflowCount(logFiles, DateStamp(d)) > 0 =>
            ShardName(DateStamp(d), 2) \in DOMAIN logFiles

\* an append that found the base shard at the threshold and one overflow
\* shard present, and so opened <date>-3.log
C3_Witness ==
  /\ lastAppend.day # 0
  /\ BaseName(DateStamp(lastAppend.day)) \in DOMAIN lastAppend.dir
  /\ StatSize(lastAppend.dir, BaseName(DateStamp(lastAppend.day))) = 5242880
  /\ OverflowCount(lastAppend.dir, DateStamp(lastAppend.day)) = 1
  /\ lastAppend.target = ShardName(DateStamp(lastAppend.day), 3)
  /\ lastAppend.target \in DOMAIN logFiles

\* C4: once the base shard has reached the threshold, appends keep targeting
\* <date>-2.log until that shard overflows in its turn; only then does the
\* target become <date>-3.log.
C4_OneShardPerOverflow ==
  LET ds == DateStamp(lastAppend.day)
      dir == lastAppend.dir
  IN (/\ lastAppend.day # 0
      /\ BaseName(ds) \in DOMAIN dir
      /\ StatSize(dir, BaseName(ds)) >= 5242880
      /\ ShardName(ds, 2) \in DOMAIN dir
      /\ StatSize(dir, ShardName(ds, 2)) < 5242880)
     => lastAppend.target = ShardName(ds, 2)

\* ===================================================== buildBaseBlocks
MERGE_WINDOW_MINUTES == 30

\* a || b and a ?? b on optional strings
Truthy(a) == a # Undef /\ a # ""
OrElse(a, b) == IF Truthy(a) THEN a ELSE b
Nullish(a, b) == IF a = Undef THEN b ELSE a

\* one LogEvent; the fields an event kind does not carry are undefined
LogEvent(type, t, filePath, p) ==
  [type |-> type, t |-> t, filePath |-> filePath,
   addedLines |-> p.addedLines, removedLines |-> p.removedLines, note |-> p.note,
   workType |-> p.workType, mainGoal |-> p.mainGoal, changeSummary |-> p.changeSummary,
   importantFunctions |-> p.importantFunctions, risks |-> p.risks, nextSteps |-> p.nextSteps]

NoPayload ==
  [type |-> Undef, addedLines |-> 0, removedLines |-> 0, note |-> Undef,
   workType |-> Undef, mainGoal |-> Undef, changeSummary |-> Undef,
   importantFunctions |-> <<>>, risks |-> Undef, nextSteps |-> Undef]

FileSave(a, r) == [NoPayload EXCEPT !.type = "file_save", !.addedLines = a, !.removedLines = r]
Decision(note) == [NoPayload EXCEPT !.type = "decision", !.note = note]
Bugfix(note) == [NoPayload EXCEPT !.type = "bugfix", !.note = note]
AiNote(wt, goal, summary, fns, risks, next) ==
  [NoPayload EXCEPT !.type = "ai_note", !.workType = wt, !.mainGoal = goal,
                    !.changeSummary = summary, !.importantFunctions = fns,
                    !.risks = risks, !.nextSteps = next]

\* the payloads the model feeds: a save, a decision memo, a bugfix memo, two
\* complete AI notes, and an AI note whose model left every text empty
Payloads ==
  { FileSave(5, 0),
    Decision("chose X"),
    Bugfix("off by one"),
    AiNote("feature", "goal A", "summary A", <<"f">>, "risk A", "next A"),
    AiNote("refactor", "goal C", "summary C", <<"f", "g">>, "risk C", "next C"),
    AiNote(Undef, "", "", <<>>, Undef, "") }

\* gaps between consecutive events, in milliseconds: five minutes, exactly
\* the merge window, and one millisecond more
Gaps == {5 * 60000, MERGE_WINDOW_MINUTES * 60000, MERGE_WINDOW_MINUTES * 60000 + 1}

\* 10:00:00.000 of the day, in milliseconds
FirstTime == 10 * 3600000

\* one entry of changeSummaryParts: the text of a template string
Fragment(kind, text, a, r) == [kind |-> kind, text |-> text, added |-> a, removed |-> r]

\* event.filePath ?? "project"
FileOf(event) == Nullish(event.filePath, "project")

NewBuilder(eventTime, file) ==
  [timeStart |-> eventTime, timeEnd |-> eventTime, file |-> file,
   workType |-> Undef, mainGoal |-> Undef, changeSummaryParts |-> <<>>,
   importantFunctions |-> <<>>, risks |-> Undef, nextSteps |-> Undef]

\* mutant: the names are collected in a list, repeated names included
AddAll_Repeats(set, fns) == set \o fns

RECURSIVE AddAll(_, _)
\* forEach(fn => set.add(fn)) on a Set kept in insertion order
AddAll(set, fns) ==
  IF fns = <<>> THEN set
  ELSE AddAll(IF \E i \in 1..Len(set) : set[i] = Head(fns) THEN set ELSE Append(set, Head(fns)),
              Tail(fns))

\* mutant: the AI note fills mainGoal only when the builder has none
ApplyAiNote_GoalKept(builder, event) ==
  [builder EXCEPT
     !.workType = event.workType,
     !.mainGoal = Nullish(builder.mainGoal, event.mainGoal),
     !.changeSummaryParts =
        IF Truthy(event.changeSummary)
          THEN Append(@, Fragment("ai_note", event.changeSummary, 0, 0)) ELSE @,
     !.importantFunctions = AddAll(@, event.importantFunctions),
     !.risks = OrElse(event.risks, builder.risks),
     !.nextSteps = OrElse(event.nextSteps, builder.nextSteps)]

\* mutant: the AI note fills workType and risks only when the builder has none
ApplyAiNote_FirstWins(builder, event) ==
  [builder EXCEPT
     !.workType = Nullish(builder.workType, event.workType),
     !.mainGoal = OrElse(event.mainGoal, builder.mainGoal),
     !.changeSummaryParts =
        IF Truthy(event.changeSummary)
          THEN Append(@, Fragment("ai_note", event.changeSummary, 0, 0)) ELSE @,
     !.importantFunctions = AddAll(@, event.importantFunctions),
     !.risks = OrElse(builder.risks, event.risks),
     !.nextSteps = OrElse(event.nextSteps, builder.nextSteps)]

\* case "ai_note"
ApplyAiNote(builder, event) ==
  [builder EXCEPT
     !.workType = event.workType,
     !.mainGoal = OrElse(event.mainGoal, builder.mainGoal),
     !.changeSummaryParts =
        IF Truthy(event.changeSummary)
          THEN Append(@, Fragment("ai_note", event.changeSummary, 0, 0)) ELSE @,
     !.importantFunctions = AddAll(@, event.importantFunctions),
     !.risks = OrElse(event.risks, builder.risks),
     !.nextSteps = OrElse(event.nextSteps, builder.nextSteps)]

\* case "decision"
ApplyDecision(builder, event) ==
  [builder EXCEPT
     !.workType = Nullish(builder.workType, "chore"),
     !.mainGoal = Nullish(builder.mainGoal, "decision record"),
     !.changeSummaryParts = Append(@, Fragment("decision", event.note, 0, 0))]

\* mutant: a bugfix memo always stamps the block as a bugfix
ApplyBugfix_Overwrites(builder, event) ==
  [builder EXCEPT
     !.workType = "bugfix",
     !.mainGoal = Nullish(builder.mainGoal, "bugfix record"),
     !.changeSummaryParts = Append(@, Fragment("bugfix", event.note, 0, 0))]

\* case "bugfix"
ApplyBugfix(builder, event) ==
  [builder EXCEPT
     !.workType = Nullish(builder.workType, "bugfix"),
     !.mainGoal = Nullish(builder.mainGoal, "bugfix record"),
     !.changeSummaryParts = Append(@, Fragment("bugfix", event.note, 0, 0))]

\* case "file_save"
ApplyFileSave(builder, event) ==
  [builder EXCEPT
     !.workType = Nullish(builder.workType, "chore"),
     !.mainGoal = Nullish(builder.mainGoal, "file change"),
     !.changeSummaryParts =
        Append(@, Fragment("file_save", "", event.addedLines, event.removedLines))]

\* switch (event.type)
ApplyEvent(builder, event) ==
  CASE event.type = "ai_note" -> ApplyAiNote(builder, event)
    [] event.type = "decision" -> ApplyDecision(builder, event)
    [] event.type = "bugfix" -> ApplyBugfix(builder, event)
    [] event.type = "file_save" -> ApplyFileSave(builder, event)
    [] OTHER -> builder

\* mutant: the gap is compared with < instead of <=
WithinWindow_Strict(bs, event) ==
  /\ bs # <<>>
  /\ bs[Len(bs)].file = FileOf(event)
  /\ event.t - bs[Len(bs)].timeEnd < MERGE_WINDOW_MINUTES * 60000

\* mutant: the gap is measured from the first event of the builder
WithinWindow_FromStart(bs, event) ==
  /\ bs # <<>>
  /\ bs[Len(bs)].file = FileOf(event)
  /\ event.t - bs[Len(bs)].timeStart <= MERGE_WINDOW_MINUTES * 60000

\* lastBuilder && lastBuilder.file === file &&
\*   (eventTime - lastBuilder.timeEnd) / 60000 <= MERGE_WINDOW_MINUTES
WithinWindow(bs, event) ==
  /\ bs # <<>>
  /\ bs[Len(bs)].file = FileOf(event)
  /\ event.t - bs[Len(bs)].timeEnd <= MERGE_WINDOW_MINUTES * 60000

\* mutant: the newest builder of the same file is reused, wherever it is
FoldEvent_Rescan(bs, event) ==
  LET same == {i \in 1..Len(bs) : bs[i].file = FileOf(event)}
      k == IF same = {} THEN 0 ELSE CHOOSE i \in same : \A j \in same : j <= i
  IN IF k # 0 /\ event.t - bs[k].timeEnd <= MERGE_WINDOW_MINUTES * 60000
       THEN [bs EXCEPT ![k] = ApplyEvent([@ EXCEPT !.timeEnd = event.t], event)]
       ELSE Append(bs, ApplyEvent(NewBuilder(event.t, FileOf(event)), event))

\* mutant: a folded event does not extend the end time of the builder
FoldEvent_NoExtend(bs, event) ==
  IF WithinWindow(bs, event)
    THEN [bs EXCEPT ![Len(bs)] = ApplyEvent(@, event)]
    ELSE Append(bs, ApplyEvent(NewBuilder(event.t, FileOf(event)), event))

\* one iteration of the loop over the events
FoldEvent(bs, event) ==
  IF WithinWindow(bs, event)
    THEN [bs EXCEPT ![Len(bs)] = ApplyEvent([@ EXCEPT !.timeEnd = event.t], event)]
    ELSE Append(bs, ApplyEvent(NewBuilder(event.t, FileOf(event)), event))

\* formatTimestamp(isoString): the instant cut to whole minutes
FormatTimestamp(t) == t \div 60000

\* changeSummaryParts.filter(Boolean): the model never stores an empty part
\* (.join(" / ") keeps the parts apart)
JoinParts(parts) == SelectSeq(parts, LAMBDA f : ~(f.kind \in {"ai_note", "text"} /\ f.text = ""))

\* an optional array: undefined, or the array of the items
NoArray == [defined |-> FALSE, items |-> <<>>]
SomeArray(items) == [defined |-> TRUE, items |-> items]

\* the object built by .map(builder => ...), codeSnippet left out
ToBlock(builder) ==
  LET changeSummary == JoinParts(builder.changeSummaryParts)
  IN [time |-> FormatTimestamp(builder.timeEnd),
      file |-> builder.file,
      workType |-> builder.workType,
      mainGoal |-> builder.mainGoal,
      changeSummary |->
        IF changeSummary # <<>> THEN changeSummary
        ELSE IF Truthy(builder.mainGoal) THEN <<Fragment("text", builder.mainGoal, 0, 0)>>
        ELSE <<Fragment("text", "change summary", 0, 0)>>,
      importantFunctions |->
        IF Len(builder.importantFunctions) # 0
          THEN SomeArray(builder.importantFunctions) ELSE NoArray,
      risks |-> builder.risks,
      nextSteps |-> builder.nextSteps]

\* mutant: the blocks are returned newest first
Finalize_NewestFirst(bs) ==
  SelectSeq([i \in 1..Len(bs) |-> ToBlock(bs[Len(bs) + 1 - i])],
            LAMBDA block : JoinParts(block.changeSummary) # <<>>)

\* builders.map(...).filter(block => block.changeSummary)
Finalize(bs) ==
  SelectSeq([i \in 1..Len(bs) |-> ToBlock(bs[i])],
            LAMBDA block : JoinParts(block.changeSummary) # <<>>)

RECURSIVE FoldAll(_, _)
FoldAll(bs, evs) == IF evs = <<>> THEN bs ELSE FoldAll(FoldEvent(bs, Head(evs)), Tail(evs))

\* buildBaseBlocks(events, workspaceRoot)
BuildBaseBlocks(evs) == Finalize(FoldAll(<<>>, evs))

\* ---------------------------------------------------- aggregator actions
LogIdle ==
  /\ logFiles = NoDir
  /\ today = 1
  /\ appended = <<>>
  /\ corruptions = 0
  /\ lastAppend = NoAppend
  /\ readResult = NoRead
  /\ readFresh = FALSE

NoFold == [kind |-> "none"]

\* buildBaseBlocks has been called: const builders = []
InitAgg ==
  /\ LogIdle
  /\ ParseIdle
  /\ GenIdle
  /\ SaveIdle
  /\ events = <<>>
  /\ builders = <<>>
  /\ lastFold = NoFold
  /\ blocks = <<>>
  /\ aggPc = "loop"

\* the timestamps the next event of the sorted input can carry
NextTimes == IF events = <<>> THEN {FirstTime} ELSE {events[Len(events)].t + g : g \in Gaps}

\* the loop takes the next event of the input
Fold(event) ==
  /\ aggPc = "loop"
  /\ Len(events) < MaxEvents
  /\ events' = Append(events, event)
  /\ builders' = FoldEvent(builders, event)
  /\ lastFold' = [kind |-> "fold", event |-> event, prev |-> builders]
  /\ UNCHANGED <<blocks, aggPc>>
  /\ UNCHANGED <<logVars, parseVars, genVars, saveVars>>

\* the input is exhausted: map and filter the builders, return
Return ==
  /\ aggPc = "loop"
  /\ events # <<>>
  /\ blocks' = Finalize(builders)
  /\ aggPc' = "done"
  /\ UNCHANGED <<events, builders, lastFold>>
  /\ UNCHANGED <<logVars, parseVars, genVars, saveVars>>

\* the events of the input: every payload on file a, a save and a complete
\* AI note on file b
InputEvents(t) ==
  {LogEvent(p.type, t, "a", p) : p \in Payloads}
    \cup {LogEvent(p.type, t, "b", p) :
            p \in {FileSave(5, 0),
                   AiNote("feature", "goal A", "summary A", <<"f">>, "risk A", "next A")}}

NextAgg ==
  \/ \E t \in NextTimes : \E event \in InputEvents(t) : Fold(event)
  \/ Return

SpecAgg == InitAgg /\ [][NextAgg]_vars

\* ------------------------------------------------ aggregator properties
Minutes(m) == m * 60000
At(h, m) == h * 3600000 + m * 60000

Folded == lastFold.kind = "fold"
\* the last iteration reused the newest builder / opened a new one
Reused == Folded /\ Len(builders) = Len(lastFold.prev)
Opened == Folded /\ Len(builders) = Len(lastFold.prev) + 1
\* the builder the last event went into, before and after the iteration
Before == lastFold.prev[Len(lastFold.prev)]
Current == builders[Len(builders)]

\* C5: an event is folded into the last-opened builder iff its file equals
\* the builder's file and its time minus the builder's last-seen time is at
\* most 30 minutes; otherwise a new builder is opened. Same-file events 29
\* minutes apart give one BaseBlock, 31 minutes apart give two (the two
\* examples are evaluated in the initial state).
C5_MergeWindow ==
  /\ Folded =>
       LET e == lastFold.event
           prev == lastFold.prev
           file == IF e.filePath = Undef THEN "project" ELSE e.filePath
           near == /\ prev # <<>>
                   /\ Before.file = file
                   /\ e.t - Before.timeEnd <= 1800000
       IN /\ near => (Reused /\ Current.file = file /\ Current.timeStart = Before.timeStart)
          /\ ~near => (Opened /\ Current.file = file /\ Current.timeStart = e.t)
          /\ Current.timeEnd = e.t
  /\ events = <<>> =>
       /\ Len(BuildBaseBlocks(<<LogEvent("file_save", At(10, 0), "a", FileSave(5, 0)),
                                LogEvent("file_save", At(10, 29), "a", FileSave(2, 1))>>)) = 1
       /\ Len(BuildBaseBlocks(<<LogEvent("file_save", At(10, 0), "a", FileSave(5, 0)),
                                LogEvent("file_save", At(10, 31), "a", FileSave(2, 1))>>)) = 2

\* a same-file event exactly 30 minutes after the builder's last event was
\* folded into it
C5_Witness ==
  /\ Reused
  /\ lastFold.event.t - Before.timeEnd = Minutes(30)
  /\ Before.file = lastFold.event.filePath

\* C6: an event is never folded into a builder other than the most recently
\* opened one; a, b, a within 30 minutes gives three blocks (a, b, a) and the
\* second a-event is not added to the first a-block.
C6_AdjacencyOnly ==
  /\ Folded =>
       /\ \A i \in 1..(Len(lastFold.prev) - 1) : builders[i] = lastFold.prev[i]
       /\ Opened => SubSeq(builders, 1, Len(lastFold.prev)) = lastFold.prev
  /\ (/\ Len(events) = 3
      /\ events[1].filePath = "a" /\ events[2].filePath = "b" /\ events[3].filePath = "a"
      /\ events[3].t - events[1].t <= Minutes(30))
     => /\ Len(builders) = 3
        /\ builders[1].file = "a" /\ builders[2].file = "b" /\ builders[3].file = "a"
        /\ builders[1].timeEnd = events[1].t
        /\ aggPc = "done" => (Len(blocks) = 3 /\ blocks[1].file = "a"
                              /\ blocks[2].file = "b" /\ blocks[3].file = "a")

\* a, b, a within the window, aggregated and returned as three blocks
C6_Witness ==
  /\ aggPc = "done"
  /\ Len(events) = 3
  /\ events[1].filePath = "a" /\ events[2].filePath = "b" /\ events[3].filePath = "a"
  /\ events[3].t - events[1].t <= Minutes(30)
  /\ Len(blocks) = 3

\* the fragment an event contributes, none for an AI note without summary
PartsOf(e) ==
  CASE e.type = "file_save" -> <<Fragment("file_save", "", e.addedLines, e.removedLines)>>
    [] e.type = "decision" -> <<Fragment("decision", e.note, 0, 0)>>
    [] e.type = "bugfix" -> <<Fragment("bugfix", e.note, 0, 0)>>
    [] e.type = "ai_note" /\ e.changeSummary \notin {"", Undef} ->
         <<Fragment("ai_note", e.changeSummary, 0, 0)>>
    [] OTHER -> <<>>

RECURSIVE PartsOfRange(_, _, _)
PartsOfRange(evs, i, j) ==
  IF i > j THEN <<>> ELSE PartsOf(evs[i]) \o PartsOfRange(evs, i + 1, j)

\* the place in the input of the event with timestamp t (timestamps of the
\* input are distinct), 0 when there is none
IndexAt(t) ==
  IF \E i \in 1..Len(events) : events[i].t = t
    THEN CHOOSE i \in 1..Len(events) : events[i].t = t
    ELSE 0

DefaultGoals == {"decision record", "file change"}

\* an AI note was folded into a block whose mainGoal is a chore default
NoteAfterDefault ==
  /\ Reused
  /\ lastFold.event.type = "ai_note"
  /\ Before.mainGoal \in DefaultGoals

NoteFolded == Folded /\ lastFold.event.type = "ai_note"
\* what the builder held before the note: nothing when it was just opened
Held0(field) == IF Reused THEN Before[field] ELSE Undef

\* equal optional texts, an absent one and an empty one both being no text
SameText(a, b) == a = b \/ (a \in {"", Undef} /\ b \in {"", Undef})

\* C9 as stated: immediately after an AiNote is folded, the builder's
\* workType, risks and nextSteps equal that AiNote's values, whatever earlier
\* events had set.
C9_NoteIsAuthoritative ==
  NoteFolded =>
     /\ Current.workType = lastFold.event.workType
     /\ SameText(Current.risks, lastFold.event.risks)
     /\ SameText(Current.nextSteps, lastFold.event.nextSteps)

\* C9 amended: workType always equals the AiNote's workType; risks and
\* nextSteps equal the AiNote's values when these are non-empty strings, and
\* otherwise keep what the builder held before the AiNote.
C9_NoteAuthoritativeWhenNonEmpty ==
  NoteFolded =>
     /\ Current.workType = lastFold.event.workType
     /\ \A field \in {"risks", "nextSteps"} :
          /\ lastFold.event[field] \notin {"", Undef} => Current[field] = lastFold.event[field]
          /\ lastFold.event[field] \in {"", Undef} => Current[field] = Held0(field)

\* a second AI note replaced the work type and the risks of the first
C9_Witness ==
  /\ NoteFolded /\ Reused
  /\ Before.workType = "feature" /\ Before.risks = "risk A"
  /\ lastFold.event.workType = "refactor" /\ lastFold.event.risks = "risk C"
  /\ Current.workType = "refactor" /\ Current.risks = "risk C" /\ Current.nextSteps = "next C"

\* a save or a memo was the last event folded
MemoFolded == Folded /\ lastFold.event.type \in {"file_save", "decision", "bugfix"}

\* C10: FileSave, Decision and Bugfix set workType and mainGoal only when
\* they are unset in the builder; they never change a value set by an earlier
\* event of the block (AiNote values survive, a Bugfix after a FileSave
\* leaves workType at the FileSave default).
C10_DefaultsOnlyWhenUnset ==
  MemoFolded =>
     LET type == lastFold.event.type
         wt == IF type = "bugfix" THEN "bugfix" ELSE "chore"
         goal == CASE type = "bugfix" -> "bugfix record"
                   [] type = "decision" -> "decision record"
                   [] OTHER -> "file change"
     IN /\ Held0("workType") # Undef => Current.workType = Held0("workType")
        /\ Held0("mainGoal") # Undef => Current.mainGoal = Held0("mainGoal")
        /\ Held0("workType") = Undef => Current.workType = wt
        /\ Held0("mainGoal") = Undef => Current.mainGoal = goal
        /\ Current.risks = Held0("risks") /\ Current.nextSteps = Held0("nextSteps")

\* a bugfix memo folded into a block that a file save had marked as chore
C10_Witness ==
  /\ MemoFolded /\ Reused
  /\ lastFold.event.type = "bugfix"
  /\ Before.workType = "chore" /\ Before.mainGoal = "file change"
  /\ Current.workType = "chore" /\ Current.mainGoal = "file change"

\* the builders whose joined summary (changeSummaryParts.filter(Boolean)
\* .join(" / ")) is the empty string
EmptySummary == {i \in 1..Len(builders) : JoinParts(builders[i].changeSummaryParts) = <<>>}

\* C11 as stated: at finalization a builder whose joined summary is empty
\* (a block holding only an AiNote with an empty changeSummary) is dropped,
\* it produces no BaseBlock: the output holds one block for each of the other
\* builders and none besides.
C11_EmptySummaryDropped ==
  aggPc = "done" => Len(blocks) = Len(builders) - Cardinality(EmptySummary)

\* C12: the BaseBlocks are output in the order in which their builders were
\* opened (block i comes from the i-th builder opened), and for the sorted
\* input the block times are non-decreasing along the output list.
C12_OutputInOpenOrder ==
  aggPc = "done" =>
     /\ Len(blocks) = Len(builders)
     /\ \A i \in 1..Len(blocks) :
          /\ blocks[i].file = builders[i].file
          /\ blocks[i].time = builders[i].timeEnd \div 60000
     /\ \A i, j \in 1..Len(blocks) :
          i < j => /\ builders[i].timeStart < builders[j].timeStart
                   /\ blocks[i].time <= blocks[j].time

\* three blocks were returned, the first earlier than the second, the second
\* earlier than the third
C12_Witness ==
  /\ aggPc = "done"
  /\ Len(blocks) = 3
  /\ blocks[1].time < blocks[2].time /\ blocks[2].time < blocks[3].time
  /\ blocks[1].file = blocks[2].file

\* ================================================= response parser: inputs
Strings(l) == JArr([i \in 1..Len(l) |-> JStr(l[i])])

\* a block as the prompt asks for it
FullEntry ==
  JObj(<<Member("time", JStr("10:00")), Member("file", JStr("a.ts")),
         Member("oneLineSummary", JStr("s1")), Member("problem", JStr("p1")),
         Member("behavior", Strings(<<"b1", "b2">>)),
         Member("concepts",
                JArr(<<JObj(<<Member("name", JStr("n")), Member("pitfalls", Strings(<<"pf">>))>>)>>)),
         Member("alternatives",
                JArr(<<JObj(<<Member("name", JStr("alt")), Member("pros", Strings(<<"fast">>)),
                              Member("cons", Strings(<<>>))>>)>>)),
         Member("whyChosen", Strings(<<"w">>)),
         Member("tradeoffs", Strings(<<>>)),
         Member("rememberThis", Strings(<<"r">>))>>)

\* only the three required fields
MinimalEntry ==
  JObj(<<Member("time", JStr("11:00")), Member("oneLineSummary", JStr("s2")),
         Member("problem", JStr("p2"))>>)

\* the required fields, the list fields given as a string, null, a number and
\* an object, a concept without pitfalls, an alternative whose pros is a string
LooseEntry ==
  JObj(<<Member("time", JStr("12:00")), Member("oneLineSummary", JStr("s3")),
         Member("problem", JStr("p3")),
         Member("behavior", JStr("b")),
         Member("concepts", JArr(<<JObj(<<Member("name", JStr("n"))>>)>>)),
         Member("alternatives",
                JArr(<<JObj(<<Member("name", JStr("alt")), Member("pros", JStr("fast"))>>)>>)),
         Member("whyChosen", JNull),
         Member("tradeoffs", JNum("0")),
         Member("rememberThis", JObj(<<>>))>>)

\* time is the empty string
EmptyTimeEntry ==
  JObj(<<Member("time", JStr("")), Member("oneLineSummary", JStr("s4")),
         Member("problem", JStr("p4"))>>)

\* {time: "x"}
OnlyTimeEntry == JObj(<<Member("time", JStr("x"))>>)

\* problem is a number
NumberProblemEntry ==
  JObj(<<Member("time", JStr("13:00")), Member("oneLineSummary", JStr("s5")),
         Member("problem", JNum("0"))>>)

\* the elements a candidate array is made of
Entries ==
  {FullEntry, MinimalEntry, LooseEntry, EmptyTimeEntry, OnlyTimeEntry, NumberProblemEntry,
   JNull, JNum("0"), JStr("none")}

EntryLists == UNION {[1..n -> Entries] : n \in 0..MaxEntries}

\* the values a response can be the text of
Values ==
  {JArr(l) : l \in EntryLists}
    \cup {JObj(<<Member("blocks", JArr(l))>>) : l \in EntryLists}
    \cup {JObj(<<Member("items", JArr(<<MinimalEntry>>))>>), JObj(<<>>),
          JObj(<<Member("blocks", JStr("none"))>>), JObj(<<Member("blocks", JNull)>>),
          JObj(<<Member("blocks", JStr("none")), Member("blocks", JArr(<<MinimalEntry>>))>>),
          JNum("0"), JStr("none"), JNull, JTrue, JFalse}

\* texts that are no JSON: nothing, an apology, braces or brackets around
\* words, a reply cut off after the opening of the array
Junk ==
  {<<>>, <<Prose("Sorry")>>, <<OpenBrace, Prose("x"), CloseBrace>>,
   <<OpenBracket, Prose("x"), CloseBracket>>,
   <<OpenBrace, Str("blocks"), Colon, Space, OpenBracket>>}

\* commentary before and after the body
Leads ==
  {<<>>, <<Space>>, <<Prose("Here is the JSON:"), Space>>,
   <<Prose("The report"), Space, OpenBrace, Prose("x"), CloseBrace, Prose(":"), Space>>,
   <<Prose("Fixed the missing"), Space, CloseBrace, Prose(":"), Space>>}

Trails == {<<>>, <<Space, Prose("Hope this helps.")>>, <<Space, Prose("(see"), Space, OpenBracket, Prose("1"), CloseBracket, Prose(")")>>}

\* the bodies the model wraps in commentary
WrappedBodies ==
  {Stringify(JObj(<<Member("blocks", JArr(<<MinimalEntry, OnlyTimeEntry>>))>>)),
   Stringify(JArr(<<MinimalEntry>>)),
   Stringify(JArr(<<JStr("none")>>)),
   Stringify(JArr(<<>>)),
   Stringify(JNum("0")),
   <<Prose("Sorry")>>}

Sent(lead, body, trail) == [lead |-> lead, body |-> body, trail |-> trail]

Responses ==
  {Sent(<<>>, Stringify(v), <<>>) : v \in Values}
    \cup {Sent(<<>>, body, <<>>) : body \in Junk}
    \cup {Sent(lead, body, trail) : lead \in Leads, body \in WrappedBodies, trail \in Trails}

TextOf(s) == s.lead \o s.body \o s.trail

\* ------------------------------------------------- response parser: actions
\* parseReasoningJson is about to be called with the text of a response, or
\* with undefined when the provider's reply carried no text
InitParse ==
  /\ LogIdle
  /\ AggIdle
  /\ GenIdle
  /\ SaveIdle
  /\ \/ sent \in Responses /\ reply = StringContent(TextOf(sent))
     \/ sent = NoSent /\ reply = NoContent
  /\ structural = NoParsed
  /\ outcome = NoOutcome

\* parseReasoningJson(content)
ParseReasoning ==
  /\ outcome = NoOutcome
  /\ structural' = IF reply.type = "string" THEN SafeParseJson(reply.text) ELSE NoParsed
  /\ outcome' = ParseReasoningJson(reply)
  /\ UNCHANGED <<sent, reply>>
  /\ UNCHANGED <<logVars, aggVars, genVars, saveVars>>

NextParse == ParseReasoning

SpecParse == InitParse /\ [][NextParse]_vars

\* ------------------------------------------------- response parser: properties
\* parseReasoningJson was called with a string and has ended
Tried == outcome # NoOutcome /\ reply.type = "string"

\* places of the first "{" and the last "}", the first "[" and the last "]"
\* of the response text (0: there is none)
FirstBrace == IndexOf(reply.text, OpenBrace)
LastBrace == LastIndexOf(reply.text, CloseBrace)
FirstBracket == IndexOf(reply.text, OpenBracket)
LastBracket == LastIndexOf(reply.text, CloseBracket)

\* the three texts the parser may hand to JSON.parse, parsed
WholeText == JSON_parse(reply.text)
BraceText == JSON_parse(Slice(reply.text, FirstBrace, LastBrace))
BracketText == JSON_parse(Slice(reply.text, FirstBracket, LastBracket))

HasBraces == FirstBrace # 0 /\ LastBrace # 0
HasBrackets == FirstBracket # 0 /\ LastBracket # 0

\* the body of the response is a JSON object and stands between a leading
\* and a trailing commentary
WrappedObject ==
  /\ JSON_parse(sent.body).ok
  /\ JSON_parse(sent.body).val.ty = "object"
  /\ ~IsSpaceOnly(sent.lead) /\ ~IsSpaceOnly(sent.trail)

\* the commentary around the body holds no brace
BraceFree(text) == \A i \in 1..Len(text) : text[i] \notin {OpenBrace, CloseBrace}

\* the wrapped object was recovered by the second attempt and the call ended
\* as it does for the body alone
Recovered ==
  /\ structural = Returned(JSON_parse(sent.body).val, 2)
  /\ outcome = ParseReasoningJson(StringContent(sent.body))

\* attempts 1 and 2: the whole text first; when that fails and the text has
\* a "{" and a "}", the substring from the first "{" to the last "}"
WholeThenBraces ==
  /\ WholeText.ok => structural = Returned(WholeText.val, 1)
  /\ (~WholeText.ok /\ HasBraces) =>
        /\ structural.attempt = 2
        /\ BraceText.ok => structural = Returned(BraceText.val, 2)

\* C13 as stated: the parser tries (1) the whole text, (2) on failure the
\* substring from the first "{" to the last "}", (3) only when the text has
\* no braces the substring from the first "[" to the last "]"; a valid JSON
\* object wrapped in leading and trailing commentary is recovered by step 2
\* and yields its valid blocks.
C13_AttemptOrder ==
  Tried =>
     /\ WholeThenBraces
     /\ structural.attempt = 3 => (FirstBrace = 0 /\ LastBrace = 0)
     /\ (~WholeText.ok /\ FirstBrace = 0 /\ LastBrace = 0 /\ HasBrackets) =>
           /\ structural.attempt = 3
           /\ BracketText.ok => structural = Returned(BracketText.val, 3)
     /\ WrappedObject => Recovered

\* C13 amended: (1) the whole text; (2) on failure, when the text has both a
\* "{" and a "}", the substring from the first "{" to the last "}"; (3)
\* exactly when the whole text fails and a "{" or a "}" is missing, the
\* substring from the first "[" to the last "]". A valid JSON object wrapped
\* in leading and trailing commentary that holds no brace is recovered by
\* step 2 and yields its valid blocks.
C13_AttemptOrderBraceFreeCommentary ==
  Tried =>
     /\ WholeThenBraces
     /\ structural.attempt = 3 <=> (~WholeText.ok /\ ~HasBraces /\ HasBrackets)
     /\ (structural.attempt = 3 /\ BracketText.ok) => structural = Returned(BracketText.val, 3)
     /\ (WrappedObject /\ BraceFree(sent.lead) /\ BraceFree(sent.trail)) => Recovered

\* an object between two brace-free commentaries was recovered by the second
\* attempt and gave a block
C13_Witness ==
  /\ Tried
  /\ WrappedObject /\ BraceFree(sent.lead) /\ BraceFree(sent.trail)
  /\ ~WholeText.ok
  /\ structural.attempt = 2 /\ structural.val.ty = "object"
  /\ outcome.kind = "returned" /\ Len(outcome.blocks) = 1

\* none of the three attempts can yield a JSON value
Unparseable ==
  /\ ~WholeText.ok
  /\ ~(HasBraces /\ BraceText.ok)
  /\ ~(HasBrackets /\ BracketText.ok)

\* C14 as stated: for every response text from which none of the parse
\* attempts (whole text, brace substring, bracket substring) yields a JSON
\* value, the parser fails with the "no JSON found" error and with no other
\* error, braces around non-JSON content included.
C14_OnlyNoJsonError ==
  (Tried /\ Unparseable) => outcome = Failure("AI response did not include JSON.")

\* the array the candidate blocks are taken from: the parsed value when it is
\* an array, the value of its (last) blocks member when that is an array
HasBlocksArray(v) ==
  /\ v.ty = "object"
  /\ \E i \in 1..Len(v.members) :
       /\ v.members[i].key = "blocks" /\ v.members[i].val.ty = "array"
       /\ \A j \in (i + 1)..Len(v.members) : v.members[j].key # "blocks"

Candidates(v) ==
  IF v.ty = "array" THEN v.items
  ELSE v.members[CHOOSE i \in 1..Len(v.members) :
                   /\ v.members[i].key = "blocks"
                   /\ \A j \in (i + 1)..Len(v.members) : v.members[j].key # "blocks"].val.items

\* the returned block b was made from the candidate entry e
MadeFrom(b, e) ==
  /\ e.ty = "object"
  /\ \A f \in {"time", "oneLineSummary", "problem"} :
       \E i \in 1..Len(e.members) : e.members[i].key = f /\ e.members[i].val = b[f]

\* C15: after a structural parse succeeds, the candidate blocks are the
\* parsed value itself when it is an array, or its blocks field when that
\* field is an array; every other parsed value (an object without a blocks
\* array, a number, a string, null, true or false) gives the schema error and
\* never a returned result.
C15_CandidatesOrSchemaError ==
  (Tried /\ structural.threw = "") =>
     LET v == structural.val
     IN IF v.ty = "array" \/ HasBlocksArray(v)
          THEN /\ outcome # Failure("Reasoning JSON schema mismatch.")
               /\ outcome.kind = "returned" =>
                    \A i \in 1..Len(outcome.blocks) :
                       \E j \in 1..Len(Candidates(v)) :
                          MadeFrom(outcome.blocks[i], Candidates(v)[j])
          ELSE outcome = Failure("Reasoning JSON schema mismatch.")

\* the response was the text null: parsed at the first attempt, refused with
\* the schema error
C15_Witness ==
  /\ Tried
  /\ structural = Returned(JNull, 1)
  /\ outcome = Failure("Reasoning JSON schema mismatch.")

RequiredFields == {"time", "oneLineSummary", "problem"}

\* C16 as stated: every block in a result returned by parseReasoningJson has
\* time, oneLineSummary and problem that are non-empty strings; an entry in
\* which one of the three is missing, not a string or the empty string is
\* never accepted.
C16_RequiredFieldsNonEmpty ==
  outcome.kind = "returned" =>
     \A i \in 1..Len(outcome.blocks) : \A f \in RequiredFields :
        outcome.blocks[i][f].ty = "string" /\ outcome.blocks[i][f].s # ""

\* the structural parse succeeded and gave a candidate array
HasCandidates ==
  /\ Tried /\ structural.threw = ""
  /\ structural.val.ty = "array" \/ HasBlocksArray(structural.val)

CandidateEntries == Candidates(structural.val)

\* the value of field f of the entry e (the model's entries name no field twice)
Field(e, f) ==
  IF e.ty = "object" /\ \E i \in 1..Len(e.members) : e.members[i].key = f
    THEN e.members[CHOOSE i \in 1..Len(e.members) : e.members[i].key = f].val
    ELSE JUndefined

\* the three required fields of e are strings / non-empty strings
AllStrings(e) == \A f \in RequiredFields : Field(e, f).ty = "string"
ValidEntry(e) == AllStrings(e) /\ \A f \in RequiredFields : Field(e, f).s # ""

\* block for block, the returned blocks are made from the entries es
MadeFromAll(bs, es) ==
  /\ Len(bs) = Len(es)
  /\ \A i \in 1..Len(es) : MadeFrom(bs[i], es[i])

\* C17 as stated: invalid entries are discarded, not fatal. For a candidate
\* array holding at least one valid entry the call returns, and the result is
\* exactly the subsequence of the valid entries in their original order,
\* whatever JSON values the invalid entries are (objects with missing fields,
\* null, numbers, strings). Arrays with an entry whose required strings are
\* all there but one is empty are left to C16 in the second part.
C17_InvalidEntriesDiscarded ==
  (HasCandidates /\ \E i \in 1..Len(CandidateEntries) : ValidEntry(CandidateEntries[i])) =>
     /\ outcome.kind = "returned"
     /\ (\A i \in 1..Len(CandidateEntries) :
            AllStrings(CandidateEntries[i]) => ValidEntry(CandidateEntries[i]))
          => MadeFromAll(outcome.blocks, SelectSeq(CandidateEntries, ValidEntry))

\* C18: every returned block has behavior, concepts, alternatives, whyChosen,
\* tradeoffs and rememberThis as lists: the entry's value when that value is a
\* list, the empty list when the field is absent or is not a list.
C18_ListFieldsCoerced ==
  (HasCandidates /\ outcome.kind = "returned") =>
     \A i \in 1..Len(outcome.blocks) :
        /\ \E j \in 1..Len(CandidateEntries) : MadeFrom(outcome.blocks[i], CandidateEntries[j])
        /\ \A j \in 1..Len(CandidateEntries) :
             MadeFrom(outcome.blocks[i], CandidateEntries[j]) =>
                \A f \in ListFields :
                   /\ outcome.blocks[i][f].ty = "array"
                   /\ outcome.blocks[i][f] =
                        IF Field(CandidateEntries[j], f).ty = "array"
                          THEN Field(CandidateEntries[j], f) ELSE JArr(<<>>)

\* a complete block kept its lists; a block whose list fields were a string,
\* null, a number and an object got empty lists
C18_Witness ==
  /\ outcome.kind = "returned"
  /\ CandidateEntries = <<FullEntry, LooseEntry>>
  /\ Len(outcome.blocks) = 2
  /\ outcome.blocks[1].behavior = Strings(<<"b1", "b2">>)
  /\ outcome.blocks[1].tradeoffs = JArr(<<>>)
  /\ \A f \in ListFields \ {"concepts", "alternatives"} : outcome.blocks[2][f] = JArr(<<>>)

\* C19 as stated: the list-valued fields nested in a returned block default
\* to empty too: pitfalls is a list for every element of concepts, pros and
\* cons are lists for every element of alternatives, even when the response
\* left them out or gave a value that is no list.
C19_NestedListsDefault ==
  outcome.kind = "returned" =>
     \A i \in 1..Len(outcome.blocks) :
        /\ \A k \in 1..Len(outcome.blocks[i].concepts.items) :
             Field(outcome.blocks[i].concepts.items[k], "pitfalls").ty = "array"
        /\ \A k \in 1..Len(outcome.blocks[i].alternatives.items) :
             /\ Field(outcome.blocks[i].alternatives.items[k], "pros").ty = "array"
             /\ Field(outcome.blocks[i].alternatives.items[k], "cons").ty = "array"

\* C20 as stated: parseReasoningJson never returns a result with zero
\* blocks; when the structural parse and the shape check succeed but no entry
\* passes validation (the empty array, or only invalid entries), it fails
\* with the empty-result error. An entry counts as passing here as soon as
\* its three required fields are strings.
C20_EmptyResultError ==
  /\ outcome.kind = "returned" => outcome.blocks # <<>>
  /\ (HasCandidates /\ \A i \in 1..Len(CandidateEntries) : ~AllStrings(CandidateEntries[i]))
       => outcome = Failure("No valid reasoning blocks found in AI response.")

\* ================================================= outbound generation call
\* ------------------------------------------------- postJson
\* what the promise of postJson did: resolved with the parsed body (of which
\* the model keeps choices[0].message.content) or rejected with an error
Posted(kind, error, text) == [kind |-> kind, error |-> error, content |-> text]

\* res.on("end") and req.on("error") of postJson: one request, one outcome
PostJson(resp) ==
  IF resp.failed THEN Posted("rejected", ErrorOf("socket error", 0, NoRaw), NoContent)
  ELSE IF resp.status # 0 /\ resp.status >= 400
    THEN Posted("rejected", ErrorOf("AI request failed", resp.status, resp.raw), NoContent)
  ELSE IF resp.raw.json THEN Posted("resolved", NoError, resp.raw.content)
  ELSE Posted("rejected", ErrorOf("SyntaxError", 0, NoRaw), NoContent)

\* callOpenAiText / callDeepSeekText: response?.choices?.[0]?.message?.content ?? ""
CallOpenAiText(resp) ==
  LET response == PostJson(resp)
  IN IF response.kind = "rejected" THEN response
     ELSE Posted("resolved", NoError,
                 IF response.content.type = "string" THEN response.content
                 ELSE StringContent(<<>>))

\* generateReportReasoning(provider, apiKey, model, baseBlocks), the call answered by resp
GenerateReportReasoning(resp) ==
  LET content == CallOpenAiText(resp)
      reasoning == ParseReasoningJson(content.content)
  IN IF content.kind = "rejected" THEN Settled("rejected", content.error, <<>>, JUndefined)
     ELSE IF reasoning.kind = "returned"
       THEN Settled("resolved", NoError, reasoning.blocks, JUndefined)
     ELSE Settled("rejected", ErrorOf(reasoning.error, 0, NoRaw), <<>>, JUndefined)

\* parseAiNotePayload(content)
ParseAiNotePayload(content) ==
  IF content.type # "string"
    THEN Settled("rejected", ErrorOf("AI response was empty.", 0, NoRaw), <<>>, JUndefined)
  ELSE IF JSON_parse(content.text).ok
    THEN Settled("resolved", NoError, <<>>, JSON_parse(content.text).val)
  ELSE LET trimmed == Trim(content.text)
           start == IndexOf(trimmed, OpenBrace)
           end == LastIndexOf(trimmed, CloseBrace)
           jsonText == Slice(trimmed, start, end)
       IN IF start = 0 \/ end = 0
            THEN Settled("rejected", ErrorOf("AI response did not include JSON.", 0, NoRaw),
                         <<>>, JUndefined)
          ELSE IF JSON_parse(jsonText).ok
            THEN Settled("resolved", NoError, <<>>, JSON_parse(jsonText).val)
          ELSE Settled("rejected", ErrorOf("SyntaxError", 0, NoRaw), <<>>, JUndefined)

\* generateAiNote(provider, apiKey, model, request) through callOpenAi, the
\* call answered by resp
GenerateAiNote(resp) ==
  LET response == PostJson(resp)
  IN IF response.kind = "rejected" THEN Settled("rejected", response.error, <<>>, JUndefined)
     ELSE ParseAiNotePayload(response.content)

\* ------------------------------------------------- generateReport
RECURSIVE InsertByTimestamp(_, _)
\* e placed behind every event that is not later than e
InsertByTimestamp(sorted, e) ==
  IF sorted = <<>> THEN <<e>>
  ELSE IF Head(sorted).t <= e.t THEN <<Head(sorted)>> \o InsertByTimestamp(Tail(sorted), e)
  ELSE <<e>> \o sorted

RECURSIVE SortFrom(_, _)
SortFrom(sorted, evs) ==
  IF evs = <<>> THEN sorted ELSE SortFrom(InsertByTimestamp(sorted, Head(evs)), Tail(evs))

\* mutant: the events are aggregated in the order in which they were read
SortByTimestamp_ReadOrder(evs) == evs

\* events.sort((a, b) => time(a) - time(b)), a stable sort
SortByTimestamp(evs) == SortFrom(<<>>, evs)

\* mutant: the filter lets every event through
IsRelevant_Any(event) == TRUE

\* the predicate of events.filter(...)
IsRelevant(event) == event.type \in {"file_save", "decision", "bugfix", "ai_note"}

RelevantEvents(evs) == SelectSeq(SortByTimestamp(evs), IsRelevant)


\* ------------------------------------------------- generation: inputs
\* the events a store is made of: a save and a memo of the same instant, a
\* note and an llm_call five minutes later, a bugfix memo on another file
StoredEvents ==
  { LogEvent("file_save", FirstTime, "a", FileSave(5, 0)),
    LogEvent("decision", FirstTime, "a", Decision("chose X")),
    LogEvent("ai_note", FirstTime + 5 * 60000, "a",
             AiNote("feature", "goal A", "summary A", <<"f">>, "risk A", "next A")),
    LogEvent("llm_call", FirstTime + 5 * 60000, "a", [NoPayload EXCEPT !.type = "llm_call"]),
    LogEvent("bugfix", FirstTime + 31 * 60000, "b", Bugfix("off by one")) }

\* what readLogEvents can return: the shards are concatenated, so the read
\* order need not be the order of the timestamps
Stores ==
  UNION {{s \in [1..n -> StoredEvents] : \A i, j \in 1..n : i # j => s[i] # s[j]}
           : n \in 0..MaxStore}

\* the events a save, a memo or a note appends while a call is in flight,
\* k minutes after the second hour
LateEvents(k) ==
  { LogEvent("file_save", FirstTime + (120 + k) * 60000, "a", FileSave(1, 1)),
    LogEvent("decision", FirstTime + (120 + k) * 60000, "b", Decision("late")) }

\* reports/report.md: its header and timeline section, of which the model
\* keeps where the timeline comes from and the blocks it renders
OldReport == ReportFile(TRUE, "reasoning", <<MapBlock(FullEntry)>>)

\* the texts of choices[0].message.content
AnswerTexts ==
  { Stringify(JObj(<<Member("blocks", JArr(<<MinimalEntry>>))>>)),
    <<Prose("Here is the JSON:"), Space>>
      \o Stringify(JObj(<<Member("blocks", JArr(<<MinimalEntry, OnlyTimeEntry>>))>>)),
    Stringify(JArr(<<>>)),
    Stringify(JArr(<<OnlyTimeEntry>>)),
    Stringify(JArr(<<JNull>>)),
    Stringify(JObj(<<>>)),
    Stringify(JNum("0")),
    <<OpenBrace, Prose("x"), CloseBrace>>,
    <<Prose("Sorry")>>,
    <<>> }

\* the bodies of an HTTP response: not JSON (an HTML error page), JSON
\* without choices[0].message.content, JSON with it
RawBodies ==
  {RawBody(FALSE, NoContent), RawBody(TRUE, NoContent)}
    \cup {RawBody(TRUE, StringContent(text)) : text \in AnswerTexts}

StatusCodes == {200, 302, 429, 500}

HttpResponses ==
  {HttpResponse(TRUE, 0, NoRaw)}
    \cup {HttpResponse(FALSE, status, raw) : status \in StatusCodes, raw \in RawBodies}

\* ------------------------------------------------- generation: actions
InitGen ==
  /\ LogIdle
  /\ AggIdle
  /\ ParseIdle
  /\ SaveIdle
  /\ \/ genOp = "report" /\ store \in Stores /\ reportFile \in {NoReportFile, OldReport}
     \/ genOp = "note" /\ store = <<>> /\ reportFile = NoReportFile
  /\ reportBefore = reportFile
  /\ genPc = "idle"
  /\ seen = <<>>
  /\ late = <<>>
  /\ passed = <<>>
  /\ request = <<>>
  /\ calls = 0
  /\ answer = NoResponse
  /\ genResult = NotSettled

\* the markdown of a report without timeline events or without blocks
Placeholder(timeline) == ReportFile(TRUE, timeline, <<>>)

\* generateReport up to its await: read, sort, filter, build the blocks;
\* with nothing to report the placeholder report is written and returned
StartReport ==
  /\ genOp = "report"
  /\ genPc = "idle"
  /\ seen' = store
  /\ passed' = RelevantEvents(store)
  /\ request' = BuildBaseBlocks(passed')
  /\ IF passed' = <<>> \/ request' = <<>>
       THEN /\ reportFile' = Placeholder(IF passed' = <<>> THEN "no events" ELSE "no blocks")
            /\ genResult' = Settled("resolved", NoError, <<>>, JUndefined)
            /\ genPc' = "done"
            /\ UNCHANGED calls
       ELSE /\ calls' = calls + 1
            /\ genPc' = "awaiting"
            /\ UNCHANGED <<reportFile, genResult>>
  /\ UNCHANGED <<store, genOp, late, answer, reportBefore>>
  /\ UNCHANGED <<logVars, aggVars, parseVars, saveVars>>

\* generateAiNote up to its await
StartNote ==
  /\ genOp = "note"
  /\ genPc = "idle"
  /\ calls' = calls + 1
  /\ genPc' = "awaiting"
  /\ UNCHANGED <<store, genOp, seen, late, passed, request, answer, reportFile,
                 reportBefore, genResult>>
  /\ UNCHANGED <<logVars, aggVars, parseVars, saveVars>>

\* mutant: an event appended while the call is in flight is dropped
AppendInFlight_Dropped(event) ==
  /\ genOp = "report"
  /\ genPc = "awaiting"
  /\ Len(late) < MaxLate
  /\ late' = Append(late, event)
  /\ UNCHANGED <<store, genOp, genPc, seen, passed, request, calls, answer, reportFile,
                 reportBefore, genResult>>
  /\ UNCHANGED <<logVars, aggVars, parseVars, saveVars>>

\* appendLogEvent called by another callback while generateReport awaits
AppendInFlight(event) ==
  /\ genOp = "report"
  /\ genPc = "awaiting"
  /\ Len(late) < MaxLate
  /\ store' = Append(store, event)
  /\ late' = Append(late, event)
  /\ UNCHANGED <<genOp, genPc, seen, passed, request, calls, answer, reportFile,
                 reportBefore, genResult>>
  /\ UNCHANGED <<logVars, aggVars, parseVars, saveVars>>

\* mutant: a failed call is issued once more
Respond_Retry(resp) ==
  /\ genPc = "awaiting"
  /\ answer' = resp
  /\ LET settled == IF genOp = "report" THEN GenerateReportReasoning(resp)
                    ELSE GenerateAiNote(resp)
     IN IF settled.kind = "rejected" /\ calls < 2
          THEN /\ calls' = calls + 1
               /\ UNCHANGED <<genPc, genResult, reportFile>>
          ELSE /\ genResult' = settled
               /\ genPc' = "done"
               /\ reportFile' = IF genOp = "report" /\ settled.kind = "resolved"
                                  THEN ReportFile(TRUE, "reasoning", settled.blocks)
                                  ELSE reportFile
               /\ UNCHANGED calls
  /\ UNCHANGED <<store, genOp, seen, late, passed, request, reportBefore>>
  /\ UNCHANGED <<logVars, aggVars, parseVars, saveVars>>

\* mutant: report.md is written before the outcome of the call is looked at
Respond_WritesFirst(resp) ==
  /\ genPc = "awaiting"
  /\ answer' = resp
  /\ LET settled == IF genOp = "report" THEN GenerateReportReasoning(resp)
                    ELSE GenerateAiNote(resp)
     IN /\ genResult' = settled
        /\ reportFile' = IF genOp = "report"
                           THEN ReportFile(TRUE, "reasoning", settled.blocks)
                           ELSE reportFile
  /\ genPc' = "done"
  /\ UNCHANGED <<store, genOp, seen, late, passed, request, calls, reportBefore>>
  /\ UNCHANGED <<logVars, aggVars, parseVars, saveVars>>

\* the outbound call ends with resp and the invocation runs to its end:
\* generateReport renders and writes report.md, or the error propagates
Respond(resp) ==
  /\ genPc = "awaiting"
  /\ answer' = resp
  /\ LET settled == IF genOp = "report" THEN GenerateReportReasoning(resp)
                    ELSE GenerateAiNote(resp)
     IN /\ genResult' = settled
        /\ reportFile' = IF genOp = "report" /\ settled.kind = "resolved"
                           THEN ReportFile(TRUE, "reasoning", settled.blocks)
                           ELSE reportFile
  /\ genPc' = "done"
  /\ UNCHANGED <<store, genOp, seen, late, passed, request, calls, reportBefore>>
  /\ UNCHANGED <<logVars, aggVars, parseVars, saveVars>>

NextGen ==
  \/ StartReport
  \/ StartNote
  \/ \E event \in LateEvents(Len(late)) : AppendInFlight(event)
  \/ \E resp \in HttpResponses : Respond(resp)

SpecGen == InitGen /\ [][NextGen]_vars


\* ------------------------------------------------- generation: properties
\* the failure kinds a caller can tell apart, by the error it catches; the
\* SyntaxError of JSON.parse counts as a schema failure
IsTransportFailure(error) == error.message = "AI request failed"
IsSchemaFailure(error) ==
  error.message \in {"AI response was empty.", "AI response did not include JSON.",
                     "Reasoning JSON schema mismatch.", "SyntaxError"}
IsEmptyResultFailure(error) == error.message = "No valid reasoning blocks found in AI response."

\* the outbound call was issued and its HTTP exchange ended with a status
Answered == calls > 0 /\ genPc = "done" /\ ~answer.failed

\* a success status is 2xx
SuccessStatus == Answered /\ answer.status \in 200..299

\* the text of the response, when the body is JSON that carries one
AnswerText == IF answer.raw.json /\ answer.raw.content.type = "string"
                THEN answer.raw.content.text ELSE <<>>

\* the response text is JSON, as it is or cut to its braces or brackets
TextParses == SafeParseJson(AnswerText).threw = ""

\* the candidate entries of a well-shaped response text
AnswerCandidates ==
  LET v == SafeParseJson(AnswerText).val
  IN IF IsArray(v) THEN v.items
     ELSE IF ~Unreadable(v) /\ IsArray(Prop(v, "blocks")) THEN Prop(v, "blocks").items
     ELSE <<>>

WellShaped ==
  /\ answer.raw.json
  /\ TextParses
  /\ LET v == SafeParseJson(AnswerText).val
     IN IsArray(v) \/ (~Unreadable(v) /\ IsArray(Prop(v, "blocks")))

\* C21: a failing generation call gives exactly one of three kinds of error:
\* a non-success status gives a transport failure that carries the status and
\* the raw body, whatever the body; with a success status an unparseable or
\* wrongly shaped response gives a schema failure and a well-shaped response
\* without a valid block gives an empty-result failure
C21_FailureKinds ==
  genOp = "report" /\ genPc = "done" /\ Answered =>
    /\ ~SuccessStatus =>
         /\ genResult.kind = "rejected"
         /\ genResult.error = ErrorOf("AI request failed", answer.status, answer.raw)
    /\ SuccessStatus /\ ~WellShaped =>
         genResult.kind = "rejected" /\ IsSchemaFailure(genResult.error)
    /\ SuccessStatus /\ WellShaped
         /\ (\A i \in 1..Len(AnswerCandidates) : ~ValidEntry(AnswerCandidates[i])) =>
         genResult.kind = "rejected" /\ IsEmptyResultFailure(genResult.error)
    /\ genResult.kind = "rejected" =>
         \/ IsTransportFailure(genResult.error)
         \/ IsSchemaFailure(genResult.error)
         \/ IsEmptyResultFailure(genResult.error)

\* C22: no internal retry: whatever the outcome of the outbound call, one
\* invocation of generateReport and one note generation issue at most one
\* outbound call, and an invocation that has failed has issued exactly one
C22_NoRetry ==
  /\ calls <= 1
  /\ genPc = "awaiting" => calls = 1
  /\ genPc = "done" /\ genResult.kind = "rejected" => calls = 1

\* generateReport has failed with a transport failure after its only call
C22_Witness ==
  /\ genOp = "report"
  /\ genPc = "done"
  /\ genResult.kind = "rejected"
  /\ IsTransportFailure(genResult.error)
  /\ calls = 1

\* the invocation of generateReport has ended with an error
ReportFailed == genOp = "report" /\ genPc = "done" /\ genResult.kind = "rejected"

\* C23: a failed generation call aborts generateReport: nothing is returned
\* and reports/report.md is as it was before the invocation; the file is
\* written only after the call and the parse have both succeeded
C23_FailureLeavesReport ==
  /\ genOp = "report" /\ genPc = "awaiting" => reportFile = reportBefore
  /\ ReportFailed => reportFile = reportBefore /\ genResult.blocks = <<>>
  /\ genOp = "report" /\ genPc = "done" /\ calls = 1 /\ reportFile # reportBefore =>
       /\ genResult.kind = "resolved"
       /\ PostJson(answer).kind = "resolved"
       /\ ParseReasoningJson(CallOpenAiText(answer).content).kind = "returned"

\* an older report is on disk and the call has failed with an empty result
C23_Witness ==
  /\ ReportFailed
  /\ IsEmptyResultFailure(genResult.error)
  /\ reportBefore = OldReport
  /\ reportFile = OldReport

\* the events of a sequence, as a set
Range(evs) == {evs[i] : i \in 1..Len(evs)}

\* C25: a report uses exactly the events that were in the store when
\* generateReport read it: events appended while its call is in flight are
\* kept by the store and are neither in the BaseBlocks sent nor in the report
C25_SnapshotIsolation ==
  genOp = "report" /\ genPc \in {"awaiting", "done"} =>
    /\ store = seen \o late
    /\ Range(passed) = {e \in Range(seen) : IsRelevant(e)}
    /\ Range(passed) \cap Range(late) = {}
    /\ request = BuildBaseBlocks(passed)
    /\ \A i \in 1..Len(request), j \in 1..Len(late) :
         request[i].time < FormatTimestamp(late[j].t)
    /\ genPc = "done" /\ calls = 1 /\ genResult.kind = "resolved" =>
         reportFile = ReportFile(TRUE, "reasoning", GenerateReportReasoning(answer).blocks)

\* a report was written although an event arrived while its call was in flight
C25_Witness ==
  /\ genOp = "report"
  /\ genPc = "done"
  /\ genResult.kind = "resolved"
  /\ calls = 1
  /\ late # <<>>
  /\ Len(store) > Len(seen)

\* the place of an event in the sequence that was read
ReadIndex(e) == CHOOSE k \in 1..Len(seen) : seen[k] = e

\* C27: the sequence handed to buildBaseBlocks is non-decreasing in
\* timestamp and is a permutation of the relevant events read from the
\* store, whatever their read order; equal timestamps keep their read order
C27_SortedPermutation ==
  genOp = "report" /\ genPc # "idle" =>
    /\ \A i, j \in 1..Len(passed) : i < j => passed[i].t <= passed[j].t
    /\ Len(passed) = Cardinality({k \in 1..Len(seen) : IsRelevant(seen[k])})
    /\ Range(passed) = {e \in Range(seen) : IsRelevant(e)}
    /\ \A i, j \in 1..Len(passed) :
         i < j /\ passed[i].t = passed[j].t => ReadIndex(passed[i]) < ReadIndex(passed[j])

\* the store was read newest first, with two events of the same instant
C27_Witness ==
  /\ genOp = "report"
  /\ genPc # "idle"
  /\ Len(passed) >= 2
  /\ \E k \in 1..(Len(seen) - 1) : seen[k].t > seen[k + 1].t
  /\ \E i \in 1..(Len(passed) - 1) : passed[i].t = passed[i + 1].t


\* ------------------------------------------------- nothing to report
\* generateReport has read a store that holds no event of the four kinds
\* the timeline is made of
NothingRelevant ==
  /\ genOp = "report"
  /\ genPc # "idle"
  /\ \A i \in 1..Len(seen) :
       seen[i].type \notin {"file_save", "decision", "bugfix", "ai_note"}

\* C33: with no relevant event in the store generateReport issues no
\* outbound call and so meets none of the failures of a call: it resolves
\* at once, having written the report with the placeholder timeline
C33_EmptyStoreStillReports ==
  NothingRelevant =>
    /\ calls = 0
    /\ answer = NoResponse
    /\ genPc = "done"
    /\ genResult.kind = "resolved"
    /\ genResult.error = NoError
    /\ reportFile.exists
    /\ reportFile.timeline = "no events"
    /\ reportFile.blocks = <<>>

\* the store holds one event, an llm_call, and an older report is replaced
C33_Witness ==
  /\ NothingRelevant
  /\ Len(seen) = 1
  /\ seen[1].type = "llm_call"
  /\ reportBefore = OldReport
  /\ reportFile = Placeholder("no events")


\* ================================================= change detector
\* ------------------------------------------------- file contents
\* a text is a sequence of lines; a line is its characters and its line
\* ending: "LF", "CRLF", or "" for a last line that is not terminated
Line(text, eol) == [text |-> text, eol |-> eol]

\* the texts a document can hold: nothing, an empty line, x with and without
\* a final newline, x ended by CRLF, two lines
Contents ==
  { <<>>,
    <<Line("", "LF")>>,
    <<Line("x", "")>>,
    <<Line("x", "LF")>>,
    <<Line("x", "CRLF")>>,
    <<Line("x", "LF"), Line("y", "LF")>> }

\* ------------------------------------------------- diffLines (package diff)
RECURSIVE LcsLength(_, _)
\* the number of lines of a longest common subsequence
LcsLength(a, b) ==
  IF a = <<>> \/ b = <<>> THEN 0
  ELSE IF Head(a) = Head(b) THEN 1 + LcsLength(Tail(a), Tail(b))
  ELSE LET skipOld == LcsLength(Tail(a), b)
           skipNew == LcsLength(a, Tail(b))
       IN IF skipOld >= skipNew THEN skipOld ELSE skipNew

\* a change object: value holds the lines of the part
Part(added, removed, value) == [added |-> added, removed |-> removed, value |-> value]

\* line joins the last change object when it is of the same kind
PushPart(acc, added, removed, line) ==
  IF acc # <<>> /\ acc[Len(acc)].added = added /\ acc[Len(acc)].removed = removed
    THEN [acc EXCEPT ![Len(acc)].value = Append(@, line)]
    ELSE Append(acc, Part(added, removed, <<line>>))

RECURSIVE EditScript(_, _, _)
\* a shortest edit script from the lines a to the lines b; lines are equal
\* when their characters and their line endings are
EditScript(acc, a, b) ==
  IF a = <<>> /\ b = <<>> THEN acc
  ELSE IF a # <<>> /\ b # <<>> /\ Head(a) = Head(b)
    THEN EditScript(PushPart(acc, FALSE, FALSE, Head(a)), Tail(a), Tail(b))
  ELSE IF b = <<>> \/ (a # <<>> /\ LcsLength(Tail(a), b) >= LcsLength(a, Tail(b)))
    THEN EditScript(PushPart(acc, FALSE, TRUE, Head(a)), Tail(a), b)
  ELSE EditScript(PushPart(acc, TRUE, FALSE, Head(b)), a, Tail(b))

\* diffLines(previousContent, currentContent)
DiffLines(previousContent, currentContent) == EditScript(<<>>, previousContent, currentContent)

\* ------------------------------------------------- countLines
\* value.split(/\r?\n/): the characters of each line, and "" behind a
\* terminated last line
SplitEol(value) ==
  [i \in 1..Len(value) |-> value[i].text]
    \o (IF value[Len(value)].eol # "" THEN <<"">> ELSE <<>>)

\* mutant: the last piece is never counted
CountLines_DropsLast(value) ==
  IF value = <<>> THEN 0 ELSE Len(SplitEol(value)) - 1

\* countLines(value)
CountLines(value) ==
  IF value = <<>> THEN 0
  ELSE LET pieces == SplitEol(value)
       IN IF pieces[Len(pieces)] = "" THEN Len(pieces) - 1 ELSE Len(pieces)

\* mutant: every added or removed change object counts as one line
SumLines_PerPart(diff, kind) ==
  Cardinality({i \in 1..Len(diff) :
                 (kind = "added" /\ diff[i].added) \/ (kind = "removed" /\ diff[i].removed)})

RECURSIVE SumLines(_, _)
\* the loop over the change objects, for the added or the removed parts
SumLines(diff, kind) ==
  IF diff = <<>> THEN 0
  ELSE (IF (kind = "added" /\ Head(diff).added) \/ (kind = "removed" /\ Head(diff).removed)
          THEN CountLines(Head(diff).value) ELSE 0)
       + SumLines(Tail(diff), kind)

\* ------------------------------------------------- the cache
\* mutant: the baseline is always the empty text
Baseline_Empty(cache, path) == <<>>

\* lastSavedContent.get(fsPath) ?? ""
Baseline(cache, path) == IF cache[path].has THEN cache[path].text ELSE <<>>

\* mutant: the map is replaced by one that holds the new entry only
CacheSet_Replaces(cache, path, text) ==
  [p \in DOMAIN cache |-> IF p = path THEN CacheEntry(TRUE, text) ELSE NoEntry]

\* lastSavedContent.set(fsPath, text)
CacheSet(cache, path, text) == [cache EXCEPT ![path] = CacheEntry(TRUE, text)]

\* mutant: priming stores the text whether or not the path has an entry
PrimeDocumentContent_Overwrites(cache, path, text) == CacheSet(cache, path, text)

\* primeDocumentContent(document): the cache after the call
PrimeDocumentContent(cache, path, text) ==
  IF ~cache[path].has THEN CacheSet(cache, path, text) ELSE cache

\* resolveGitBranch(workspaceRoot): the trimmed output of the command, null
\* (written Undef) when it threw or printed nothing
ResolveGitBranch(repo) == IF repo.threw THEN Undef ELSE OrElse(repo.output, Undef)

\* an event of the log: a file_save with its counts, a memo with its note,
\* an ai_note with the payload it spreads; timestamp is an instant of the
\* clock
Logged(type, timestamp, branch, filePath, added, removed, payload) ==
  [type |-> type, timestamp |-> timestamp, branch |-> branch, filePath |-> filePath,
   addedLines |-> added, removedLines |-> removed, payload |-> payload]

\* captureFileSaveEvent(document, workspaceRoot): the baseline it used, the
\* event it returns and the cache it leaves
CaptureFileSaveEvent(cache, path, text, now, repo) ==
  LET previousContent == Baseline(cache, path)
      diff == DiffLines(previousContent, text)
  IN [previous |-> previousContent,
      event |-> Logged("file_save", now, Nullish(ResolveGitBranch(repo), "unknown"), path,
                       SumLines(diff, "added"), SumLines(diff, "removed"), JUndefined),
      cache |-> CacheSet(cache, path, text)]

\* createTextEvent(type, note, workspaceRoot, editor)
CreateTextEvent(type, note, path, now, repo) ==
  Logged(type, now, Nullish(ResolveGitBranch(repo), "unknown"), path, 0, 0, JStr(note))

\* the payload has an own member of that name
Own(payload, key) ==
  payload.ty = "object" /\ \E i \in 1..Len(payload.members) : payload.members[i].key = key

\* the instant a timestamp text denotes on the clock of the model; the one
\* such text of the model names a time before the editor was started
EarlierStamp == "2026-03-01T09:00:00.000Z"
InstantOf(v) == IF v = JStr(EarlierStamp) THEN 0 ELSE -1

\* createAiNoteEvent(payload, workspaceRoot, filePath): ...payload is spread
\* last, so a member of the payload replaces the field of the same name
CreateAiNoteEvent(payload, path, now, repo) ==
  Logged(IF Own(payload, "type") THEN Prop(payload, "type").s ELSE "ai_note",
         IF Own(payload, "timestamp") THEN InstantOf(Prop(payload, "timestamp")) ELSE now,
         IF Own(payload, "branch") THEN Prop(payload, "branch").s
         ELSE Nullish(ResolveGitBranch(repo), "unknown"),
         IF Own(payload, "filePath") THEN Prop(payload, "filePath").s ELSE path,
         0, 0, payload)


\* ------------------------------------------------- callbacks: inputs
\* a TextDocument: the scheme and the fsPath of its uri
Document(scheme, path) == [scheme |-> scheme, path |-> path]

Documents ==
  {Document("file", p) : p \in TrackedPaths \cup {".devcrasher/logs/x.log"}}
    \cup {Document("untitled", "Untitled-1")}

\* the two guards of the open and save subscriptions
Ignored(document) ==
  document.scheme # "file" \/ document.path = ".devcrasher/logs/x.log"

\* the texts a document can hold when it is saved; a callback that returns
\* at a guard never reads the text
TextsOf(document) == IF Ignored(document) THEN {<<>>} ELSE Contents

\* the texts a document can hold when it is opened
OpenedTexts(document) ==
  IF Ignored(document) THEN {<<>>}
  ELSE {<<>>, <<Line("x", "LF")>>}

\* a note generation in flight: the path that started it and the file
Flight(via, path) == [via |-> via, path |-> path]

\* a message shown to the user
Message(kind, text, detail) == [kind |-> kind, text |-> text, detail |-> detail]

\* a note that echoes fields of the request next to its own
EchoPayload ==
  JObj(<<Member("mainGoal", JStr("goal A")), Member("timestamp", JStr(EarlierStamp)),
         Member("branch", JStr("main"))>>)

\* the note the model asks for
NotePayload == JObj(<<Member("mainGoal", JStr("goal A")), Member("changeSummary", JStr("s"))>>)

\* the answers to the outbound call of a note: a socket error, status 500
\* with an HTML body, status 200 with the note, with an object that is no
\* note, with an apology, with braces around words
NoteResponses ==
  { HttpResponse(TRUE, 0, NoRaw),
    HttpResponse(FALSE, 500, RawBody(FALSE, NoContent)),
    HttpResponse(FALSE, 200, RawBody(TRUE, StringContent(Stringify(NotePayload)))),
    HttpResponse(FALSE, 200, RawBody(TRUE, StringContent(Stringify(JObj(<<>>))))),
    HttpResponse(FALSE, 200, RawBody(TRUE, StringContent(<<Prose("Sorry")>>))),
    HttpResponse(FALSE, 200, RawBody(TRUE, StringContent(<<OpenBrace, Prose("x"), CloseBrace>>))) }

\* ------------------------------------------------- callbacks: actions
InitSave ==
  /\ LogIdle
  /\ AggIdle
  /\ ParseIdle
  /\ GenIdle
  /\ settings \in {Settings(FALSE, FALSE), Settings(TRUE, TRUE)}
  /\ lastSavedContent = NoCache
  /\ journal = <<>>
  /\ flights = <<>>
  /\ shown = <<>>
  /\ origin = [p \in TrackedPaths |-> NoOrigin]
  /\ lastStep = NoStep
  /\ handled = 0
  /\ repository = Git(FALSE, "main")

\* new Date(): the clock of the model ticks once per callback
Now == handled + 1

\* what a callback leaves in lastStep when it returns at a guard
Skipped(op, path) ==
  Step(op, path, <<>>, <<>>, 0, 0, lastSavedContent, journal, shown, "", NotSettled)

\* the callback of onDidOpenTextDocument
OpenDocument(document, text) ==
  /\ handled < MaxHandled
  /\ handled' = handled + 1
  /\ IF Ignored(document)
       THEN /\ lastStep' = Skipped("open ignored", document.path)
            /\ UNCHANGED <<lastSavedContent, origin>>
       ELSE /\ lastSavedContent' = PrimeDocumentContent(lastSavedContent, document.path, text)
            /\ origin' = [origin EXCEPT ![document.path] =
                            IF @.kind = "none" THEN Origin("primed", text) ELSE @]
            /\ lastStep' = Step("prime", document.path, text, <<>>, 0, 0, lastSavedContent,
                                journal, shown, "", NotSettled)
  /\ UNCHANGED <<settings, journal, flights, shown, repository>>
  /\ UNCHANGED <<logVars, aggVars, parseVars, genVars>>

\* the callback of onDidSaveTextDocument up to its end: capture, append, and
\* with auto generation the start of a note call that is not awaited
SaveDocument(document, text) ==
  /\ handled < MaxHandled
  /\ handled' = handled + 1
  /\ IF Ignored(document)
       THEN /\ lastStep' = Skipped("save ignored", document.path)
            /\ UNCHANGED <<lastSavedContent, origin, journal, flights>>
       ELSE LET captured == CaptureFileSaveEvent(lastSavedContent, document.path, text, Now, repository)
                event == captured.event
            IN /\ lastSavedContent' = captured.cache
               /\ journal' = Append(journal, event)
               /\ origin' = [origin EXCEPT ![document.path] = Origin("captured", text)]
               /\ flights' =
                    IF /\ settings.autoGen
                       /\ (event.addedLines > 0 \/ event.removedLines > 0)
                       /\ settings.configured
                      THEN Append(flights, Flight("auto", document.path))
                      ELSE flights
               /\ lastStep' = Step("capture", document.path, text, captured.previous,
                                   event.addedLines, event.removedLines, lastSavedContent,
                                   journal, shown, "", NotSettled)
  /\ UNCHANGED <<settings, shown, repository>>
  /\ UNCHANGED <<logVars, aggVars, parseVars, genVars>>

\* the debtcrasher.generateAiNote command up to its await of generateAiNote;
\* editor is the path of the active document, or "" without an active editor
AiNoteCommand(editor) ==
  /\ handled < MaxHandled
  /\ handled' = handled + 1
  /\ IF editor = ""
       THEN /\ shown' = Append(shown, Message("error", "No active editor found.", ""))
            /\ UNCHANGED flights
       ELSE IF ~settings.configured
         THEN /\ shown' = Append(shown, Message("error", "API key is not set.", ""))
              /\ UNCHANGED flights
       ELSE /\ flights' = Append(flights, Flight("manual", editor))
            /\ UNCHANGED shown
  /\ lastStep' = Skipped("command", editor)
  /\ UNCHANGED <<settings, lastSavedContent, journal, origin, repository>>
  /\ UNCHANGED <<logVars, aggVars, parseVars, genVars>>

\* flights without its i-th element
Landed(i) == [k \in 1..(Len(flights) - 1) |-> IF k < i THEN flights[k] ELSE flights[k + 1]]

\* the outbound call of the i-th note generation in flight ends with resp:
\* the rest of the command (try / catch around the await), or the .then
\* callback of the save subscription, which has no rejection handler
SettleNote(i, resp) ==
  /\ i \in 1..Len(flights)
  /\ handled < MaxHandled
  /\ handled' = handled + 1
  /\ flights' = Landed(i)
  /\ LET settled == GenerateAiNote(resp)
     IN /\ journal' = IF settled.kind = "resolved"
                        THEN Append(journal, CreateAiNoteEvent(settled.payload, flights[i].path, Now,
                                                                repository))
                        ELSE journal
        /\ shown' = IF flights[i].via = "manual"
                      THEN IF settled.kind = "resolved"
                             THEN Append(shown, Message("information", "AI note generated.", ""))
                             ELSE Append(shown, Message("error", "Failed to generate AI note.",
                                                        settled.error.message))
                      ELSE shown
        /\ lastStep' = Step("settle", flights[i].path, <<>>, <<>>, 0, 0, lastSavedContent,
                            journal, shown, flights[i].via, settled)
  /\ UNCHANGED <<settings, lastSavedContent, origin, repository>>
  /\ UNCHANGED <<logVars, aggVars, parseVars, genVars>>

NextSave ==
  \/ \E document \in Documents : \E text \in OpenedTexts(document) : OpenDocument(document, text)
  \/ \E document \in Documents : \E text \in TextsOf(document) : SaveDocument(document, text)
  \/ \E editor \in TrackedPaths \cup {""} : AiNoteCommand(editor)
  \/ \E i \in 1..MaxHandled, resp \in NoteResponses : SettleNote(i, resp)

SpecSave == InitSave /\ [][NextSave]_vars


\* ------------------------------------------------- callbacks: properties
\* the last callback was the end of a note generation that failed
NoteFailed == lastStep.op = "settle" /\ lastStep.settled.kind = "rejected"

\* the last callback showed one more message, an error
ErrorShown ==
  /\ Len(shown) = Len(lastStep.shownBefore) + 1
  /\ SubSeq(shown, 1, Len(lastStep.shownBefore)) = lastStep.shownBefore
  /\ shown[Len(shown)].kind = "error"

\* C24: a failed note generation appends no ai_note event and shows the
\* user a failure, whether the generateAiNote command or a save started it
C24_FailureSurfaced ==
  NoteFailed => journal = lastStep.journalBefore /\ ErrorShown

\* the last callback captured a save
Captured == lastStep.op = "capture"

\* C26: a save callback runs as one step among the opens, the saves and the
\* continuations of the calls in flight: the baseline of each capture of a
\* file is the text of the previous capture of that file, else the text it
\* was primed with, else the empty text, and the same step sets the cache
\* and appends the event
C26_BaselineIsPreviousCapture ==
  [][lastStep'.op = "capture" /\ handled' = handled + 1 =>
       /\ lastStep'.previous = origin[lastStep'.path].text
       /\ lastSavedContent'[lastStep'.path] = CacheEntry(TRUE, lastStep'.text)
       /\ origin'[lastStep'.path] = Origin("captured", lastStep'.text)
       /\ Len(journal') = Len(journal) + 1
       /\ journal'[Len(journal')].type = "file_save"
       /\ journal'[Len(journal')].filePath = lastStep'.path]_vars

\* a file is captured for the second time while a note call is in flight
C26_Witness ==
  /\ Captured
  /\ lastStep.previous # <<>>
  /\ lastStep.previous # lastStep.text
  /\ \E i \in 1..Len(lastStep.journalBefore) :
       /\ lastStep.journalBefore[i].type = "file_save"
       /\ lastStep.journalBefore[i].filePath = lastStep.path
  /\ flights # <<>>

\* the last callback primed a tracked document
Primed == lastStep.op = "prime"

\* C28: priming stores the text only when the path has no entry: a prime of
\* a path that has one (primed before or captured, with any text) leaves the
\* cache and so the counts of the next capture as they were, and no prime
\* produces an event
C28_PrimeNeverOverwrites ==
  Primed =>
    /\ journal = lastStep.journalBefore
    /\ lastStep.cacheBefore[lastStep.path].has =>
         /\ lastSavedContent = lastStep.cacheBefore
         /\ \A text \in Contents :
              CaptureFileSaveEvent(lastSavedContent, lastStep.path, text, Now, repository).event
                = CaptureFileSaveEvent(lastStep.cacheBefore, lastStep.path, text, Now,
                                       repository).event
    /\ ~lastStep.cacheBefore[lastStep.path].has =>
         lastSavedContent = [lastStep.cacheBefore EXCEPT
                               ![lastStep.path] = CacheEntry(TRUE, lastStep.text)]

\* a document is opened with another text than the one captured before
C28_Witness ==
  /\ Primed
  /\ origin[lastStep.path].kind = "captured"
  /\ lastStep.cacheBefore[lastStep.path].has
  /\ lastStep.cacheBefore[lastStep.path].text # lastStep.text

\* C29: a capture yields 0 added and 0 removed lines if and only if the
\* saved text equals the baseline
C29_ZeroCountsIffEqual ==
  Captured =>
    ((lastStep.added = 0 /\ lastStep.removed = 0) <=> lastStep.previous = lastStep.text)

\* the saved text differs from the baseline in its final newline only
C29_Witness ==
  /\ Captured
  /\ lastStep.previous = <<Line("x", "")>>
  /\ lastStep.text = <<Line("x", "LF")>>
  /\ lastStep.added = 1
  /\ lastStep.removed = 1

\* C30: a capture sets the cache entry of its file to the saved text and
\* leaves the entries of all other files as they were, so that a second
\* capture of the same file with the same text yields 0 added and 0 removed
C30_CaptureSetsOnlyItsEntry ==
  Captured =>
    /\ lastSavedContent[lastStep.path] = CacheEntry(TRUE, lastStep.text)
    /\ \A p \in TrackedPaths \ {lastStep.path} : lastSavedContent[p] = lastStep.cacheBefore[p]
    /\ origin[lastStep.path].kind = "captured"
         /\ lastStep.cacheBefore[lastStep.path] = CacheEntry(TRUE, lastStep.text) =>
         lastStep.added = 0 /\ lastStep.removed = 0
    /\ LET again == CaptureFileSaveEvent(lastSavedContent, lastStep.path, lastStep.text, Now,
                                            repository).event
       IN again.addedLines = 0 /\ again.removedLines = 0

\* a file is captured twice with the same text while the other file has an
\* entry
C30_Witness ==
  /\ Captured
  /\ lastStep.text # <<>>
  /\ lastStep.cacheBefore[lastStep.path] = CacheEntry(TRUE, lastStep.text)
  /\ \E i \in 1..Len(lastStep.journalBefore) :
       /\ lastStep.journalBefore[i].type = "file_save"
       /\ lastStep.journalBefore[i].filePath = lastStep.path
  /\ \E p \in TrackedPaths \ {lastStep.path} : lastSavedContent[p].has
  /\ lastStep.added = 0
  /\ lastStep.removed = 0


\* ------------------------------------------------- first save of a file
\* the last callback captured a save of a file that had no cache entry
FirstCapture == Captured /\ ~lastStep.cacheBefore[lastStep.path].has

\* C31: the capture of a file with no cache entry diffs against the empty
\* text: the event is returned, its addedLines is the number of lines of
\* the saved text and its removedLines is 0
C31_FirstCaptureCountsEveryLine ==
  FirstCapture =>
    /\ lastStep.previous = <<>>
    /\ lastStep.added = Len(lastStep.text)
    /\ lastStep.removed = 0
    /\ Len(journal) = Len(lastStep.journalBefore) + 1
    /\ journal[Len(journal)].type = "file_save"
    /\ journal[Len(journal)].addedLines = Len(lastStep.text)
    /\ journal[Len(journal)].removedLines = 0

\* a text of two lines is saved to a file that was never opened nor saved
C31_Witness ==
  /\ FirstCapture
  /\ Len(lastStep.text) = 2
  /\ journal[Len(journal)].addedLines = 2


\* ------------------------------------------------- blocks: function names
\* the AI notes folded into a builder: those of the input from its first to
\* its last event
NotesIn(b) ==
  {i \in 1..Len(events) :
     events[i].type = "ai_note" /\ b.timeStart <= events[i].t /\ events[i].t <= b.timeEnd}

NoRepeats(s) == \A i, j \in 1..Len(s) : s[i] = s[j] => i = j

\* C37: the importantFunctions of a block are the function names of all the
\* AI notes folded into it, each name once however many notes carry it; a
\* block with no such name has no importantFunctions field
C37_FunctionNamesUnion ==
  /\ aggPc = "done" => Len(blocks) = Len(builders)
  /\ \A k \in 1..Len(builders) :
       LET names == UNION {Range(events[i].importantFunctions) : i \in NotesIn(builders[k])}
       IN /\ Range(builders[k].importantFunctions) = names
          /\ NoRepeats(builders[k].importantFunctions)
          /\ aggPc = "done" =>
               IF names = {}
                 THEN blocks[k].importantFunctions = NoArray
                 ELSE /\ blocks[k].importantFunctions.defined
                      /\ Range(blocks[k].importantFunctions.items) = names
                      /\ NoRepeats(blocks[k].importantFunctions.items)

\* two AI notes that both name f are folded into one block, returned next
\* to a block without any AI note
C37_Witness ==
  /\ aggPc = "done"
  /\ Len(events) = 3
  /\ Len(blocks) = 2
  /\ events[1].type = "ai_note" /\ events[2].type = "ai_note"
  /\ events[1].importantFunctions = <<"f", "g">>
  /\ events[2].importantFunctions = <<"f">>
  /\ blocks[1].importantFunctions = SomeArray(<<"f", "g">>)
  /\ blocks[2].importantFunctions = NoArray

\* ------------------------------------------------- blocks: sliding window
\* the events i..j of the input are of one file and each follows the one
\* before it by at most 30 minutes
Chain(i, j) ==
  \A m \in i..(j - 1) :
    /\ FileOf(events[m + 1]) = FileOf(events[m])
    /\ events[m + 1].t - events[m].t <= Minutes(30)

\* C38: the merge window slides with the last event folded: an event of
\* the same file at most 30 minutes after the previous event is folded into
\* the builder of that event, however long ago the builder was opened, so a
\* chain of such events is one builder and is returned as one block
C38_SlidingWindow ==
  /\ \A m \in 1..(Len(events) - 1) :
       Chain(m, m + 1) =>
         \E k \in 1..Len(builders) :
           builders[k].timeStart <= events[m].t /\ events[m + 1].t <= builders[k].timeEnd
  /\ Chain(1, Len(events)) =>
       /\ Len(builders) <= 1
       /\ aggPc = "done" =>
            Len(blocks) = 1 /\ blocks[1].time = FormatTimestamp(events[Len(events)].t)

\* three events of one file, 30 minutes apart, returned as one block that
\* spans an hour
C38_Witness ==
  /\ aggPc = "done"
  /\ Len(events) = 3
  /\ Chain(1, 3)
  /\ events[3].t - events[1].t = Minutes(60)
  /\ Len(builders) = 1
  /\ builders[1].timeEnd - builders[1].timeStart = Minutes(60)
  /\ Len(blocks) = 1


\* ------------------------------------------------- log: refused writes
\* C34: a failure of the filesystem during appendLogEvent leaves the
\* function as an error: the write is attempted once, it is not retried and
\* its error is not swallowed; a write that is taken raises nothing
C34_AppendFailurePropagates ==
  lastAppend.day # 0 =>
    /\ lastAppend.writes = 1
    /\ lastAppend.threw <=> lastAppend.refused

\* after an event was appended the filesystem refused the next write, which
\* threw and left the directory as it was
C34_Witness ==
  /\ lastAppend.refused
  /\ lastAppend.threw
  /\ Len(appended) >= 1
  /\ lastAppend.dir # NoDir
  /\ logFiles = lastAppend.dir

\* ------------------------------------------------- log: append-only
NonBlank(ls) == SelectSeq(ls, LAMBDA l : l # <<>>)

\* C35: every successful appendLogEvent adds exactly one line, the
\* serialized event followed by a newline, at the end of exactly one shard
\* and changes nothing else: no shard disappears, every other shard keeps
\* its content and the shard written keeps its content as a prefix
C35_AppendOnly ==
  [][appended' # appended =>
       LET event == appended'[Len(appended')]
           line == <<LB, [c |-> "body", id |-> event.id, bytes |-> event.bytes - 3], RB>>
           Old(f) == IF f \in DOMAIN logFiles THEN logFiles[f] ELSE <<>>
       IN /\ DOMAIN logFiles \subseteq DOMAIN logFiles'
          /\ \E f \in DOMAIN logFiles' :
               /\ logFiles'[f] = Old(f) \o line \o <<NL>>
               /\ \A g \in DOMAIN logFiles' \ {f} :
                    g \in DOMAIN logFiles /\ logFiles'[g] = logFiles[g]
               /\ (Old(f) = <<>> \/ Old(f)[Len(Old(f))] = NL) =>
                    NonBlank(TextLines(logFiles'[f])) = NonBlank(TextLines(Old(f))) \o <<line>>]_vars

\* the last append extended a shard that held an event already, next to
\* another shard that it left alone
C35_Witness ==
  /\ Len(appended) >= 3
  /\ ~lastAppend.refused
  /\ lastAppend.target \in DOMAIN lastAppend.dir
  /\ Cardinality(DOMAIN lastAppend.dir) >= 2
  /\ logFiles[lastAppend.target] =
       lastAppend.dir[lastAppend.target] \o Entry(appended[Len(appended)])
  /\ \A g \in DOMAIN lastAppend.dir \ {lastAppend.target} : logFiles[g] = lastAppend.dir[g]

\* ------------------------------------------------- log: read order
\* shard n of day d, the base shard counted as shard 1
ShardOf(d, n) == IF n = 1 THEN BaseName(DateStamp(d)) ELSE ShardName(DateStamp(d), n)

PlaceIn(names, name) == CHOOSE i \in 1..Len(names) : names[i] = name

\* C36: readLogEvents visits the shards in chronological order: the shards
\* of an earlier date before those of a later date, and within a date the
\* base shard before the overflow shards, these by increasing index
C36_ChronologicalShardOrder ==
  readFresh =>
    LET names == ListLogFiles(logFiles)
    IN \A d1, d2 \in 1..MaxDays, n1, n2 \in ShardIndices :
         (/\ ShardOf(d1, n1) \in DOMAIN logFiles
          /\ ShardOf(d2, n2) \in DOMAIN logFiles
          /\ (d1 < d2 \/ (d1 = d2 /\ n1 < n2)))
         => PlaceIn(names, ShardOf(d1, n1)) < PlaceIn(names, ShardOf(d2, n2))

\* ------------------------------------------------- log: no shape check
\* what JSON.parse makes of a line that parses
ValueOfLine(l) ==
  IF IsEventLine(l) THEN [kind |-> "event", id |-> l[2].id]
  ELSE IF l = <<LB, RB>> THEN [kind |-> "object", id |-> 0]
  ELSE [kind |-> "number", id |-> 0]

ValuesIn(content) ==
  LET ls == SelectSeq(TextLines(content), LAMBDA l : IsEventLine(l) \/ IsForeignJson(l))
  IN [i \in 1..Len(ls) |-> ValueOfLine(ls[i])]

RECURSIVE ValuesOfFiles(_, _)
ValuesOfFiles(files, names) ==
  IF names = <<>> THEN <<>>
  ELSE ValuesIn(files[Head(names)]) \o ValuesOfFiles(files, Tail(names))

\* C39: readLogEvents checks no shape: it returns one element for every
\* non-blank line that is valid JSON, an event or not (the empty object, a
\* number), in the order of the lines, and skips only the lines that fail
\* to parse
C39_EveryJsonLineReturned ==
  readFresh =>
    /\ ~readResult.raised
    /\ readResult.events = ValuesOfFiles(logFiles, ListLogFiles(logFiles))

\* a read that returned the number of a stray line 0 next to an event
C39_Witness ==
  /\ readFresh
  /\ \E i \in 1..Len(readResult.events) : readResult.events[i].kind = "number"
  /\ \E i \in 1..Len(readResult.events) : readResult.events[i].kind = "event"
  /\ \E f \in DOMAIN logFiles : HasLine(logFiles[f], IsForeignJson)


\* ================================================= timestamps and branches
\* the continuation of recordDecision / recordBugfix behind its input box;
\* input is "" when the box was dismissed, editor the path of the active
\* document or "" without an active editor
MemoCommand(type, input, editor) ==
  /\ handled < MaxHandled
  /\ handled' = handled + 1
  /\ IF input = ""
       THEN UNCHANGED <<journal, shown>>
       ELSE /\ journal' = Append(journal, CreateTextEvent(type, input, editor, Now, repository))
            /\ shown' = Append(shown, Message("information",
                                              IF type = "decision" THEN "Decision recorded."
                                              ELSE "Bugfix recorded.", ""))
  /\ lastStep' = Skipped("memo", editor)
  /\ UNCHANGED <<settings, lastSavedContent, flights, origin, repository>>
  /\ UNCHANGED <<logVars, aggVars, parseVars, genVars>>

\* how the command can end: no git or no repository, no output (an unborn
\* tree in some setups), the name of the branch
Repositories == {Git(TRUE, ""), Git(FALSE, ""), Git(FALSE, "main")}

\* the answers to the outbound call of a note: status 500, the note, a note
\* that echoes a timestamp and a branch
StampResponses ==
  { HttpResponse(FALSE, 500, RawBody(FALSE, NoContent)),
    HttpResponse(FALSE, 200, RawBody(TRUE, StringContent(Stringify(NotePayload)))),
    HttpResponse(FALSE, 200, RawBody(TRUE, StringContent(Stringify(EchoPayload)))) }

\* the texts saved: one line, two lines
StampTexts == {<<Line("x", "LF")>>, <<Line("x", "LF"), Line("y", "LF")>>}

InitStamp ==
  /\ LogIdle
  /\ AggIdle
  /\ ParseIdle
  /\ GenIdle
  /\ settings = Settings(TRUE, TRUE)
  /\ lastSavedContent = NoCache
  /\ journal = <<>>
  /\ flights = <<>>
  /\ shown = <<>>
  /\ origin = [p \in TrackedPaths |-> NoOrigin]
  /\ lastStep = NoStep
  /\ handled = 0
  /\ repository \in Repositories

NextStamp ==
  \/ \E p \in TrackedPaths, text \in StampTexts : SaveDocument(Document("file", p), text)
  \/ \E type \in {"decision", "bugfix"}, input \in {"", "chose X"}, editor \in {"", "a"} :
       MemoCommand(type, input, editor)
  \/ AiNoteCommand("a")
  \/ \E i \in 1..MaxHandled, resp \in StampResponses : SettleNote(i, resp)

SpecStamp == InitStamp /\ [][NextStamp]_vars

\* ------------------------------------------------- branch of an event
\* the command failed or named no branch
NoBranchName == repository.threw \/ repository.output = ""

\* C32: branch resolution never fails an event: when the command fails or
\* prints an empty name, captureFileSaveEvent and createAiNoteEvent still
\* return their event, which is appended, and its branch is "unknown"
C32_BranchUnknownOnFailure ==
  NoBranchName =>
    /\ lastStep.op = "capture" => Len(journal) = Len(lastStep.journalBefore) + 1
    /\ (lastStep.op = "settle" /\ lastStep.settled.kind = "resolved")
         => Len(journal) = Len(lastStep.journalBefore) + 1
    /\ \A i \in 1..Len(journal) : journal[i].branch = "unknown"

\* ------------------------------------------------- timestamp of an event
\* C40: every event is stamped in the callback that appends it: an event is
\* appended behind the events of the log with the time of its callback as
\* timestamp, so that the timestamps of the log never decrease; the ai_note
\* events of calls in flight are appended as the calls complete, stamped
\* with the time of completion
C40_StampedWhenAppended ==
  /\ \A i \in 1..Len(journal) : journal[i].timestamp <= handled
  /\ \A i, j \in 1..Len(journal) : i < j => journal[i].timestamp <= journal[j].timestamp
  /\ lastStep.op \in {"capture", "settle", "memo"} /\ Len(journal) > Len(lastStep.journalBefore) =>
       /\ journal = Append(lastStep.journalBefore, journal[Len(journal)])
       /\ journal[Len(journal)].timestamp = handled

====
